---- MODULE Spec2Model ----
(***************************************************************************)
(* Model of the 2D-to-3D conversion pipeline of the MRI analysis platform: *)
(*   - ServerMedical3DConverter (server/services/3d-conversion-service.ts) *)
(*   - the routes that start it and processImageToModel (server/routes.ts) *)
(*   - the client Medical3DConverter (client/src/services/3d-conversion.ts)*)
(*                                                                         *)
(* Atomicity follows the event loop: one action is the code that runs      *)
(* between two real suspensions (a timer, a database or storage round      *)
(* trip, a stream event).  An await on an already settled promise only     *)
(* hops a microtask and does not end an action.                            *)
(***************************************************************************)
EXTENDS Integers, Sequences, FiniteSets, TLC

\* ---------------------------------------------------------------- bounds
MaxConverts == 1   \* POST /api/scans/:id/convert requests issued (Spec)
MaxJobs == 1       \* direct converter calls / client conversions (SpecConv)
MaxSerial == 3     \* serializer invocations recorded (SpecExport)
MaxClock == 2      \* distinct clock readings of new Date() (SpecExport)
MaxSide == 2       \* largest image width and height decoded (SpecVolume)
MaxCount == 1      \* pixels per level of a histogram given to
                   \*   calculateOtsuThreshold directly (SpecVolume)
MaxVertices == 2   \* vertices of a list given to calculateBoundingBox
                   \*   directly (SpecVolume)

MaxId == IF MaxConverts > MaxJobs THEN MaxConverts ELSE MaxJobs
Ids == 0..MaxId
ConvertReqs == 1..MaxConverts   \* run q is the one scheduled by request q
AutoRun == 0                    \* the run scheduled by POST /api/scans/create
Jobs == 1..MaxJobs

ScanIds == {"s1"}
NoCb == -1     \* no entry in the progressCallbacks map
CallerCb(j) == 0 - (j + 2)   \* the callback of the direct caller of call j

\* ------------------------------------------------------------ file names
\* path.join(dir, `${scanId}${suffix}`); uuid distinguishes the randomUUID()
\* staging files of downloadObjectStorageFile (0 for deterministic names).
FileName(dir, scanId, suffix, uuid) ==
    [dir |-> dir, scanId |-> scanId, suffix |-> suffix, uuid |-> uuid]

TmpFile(scanId, suffix) == FileName("models", scanId, suffix, 0)
StagingFile(scanId, r) == FileName("uploads", scanId, "_temp_.tmp", r + 1)
ExportFile(scanId, format) == FileName("models", scanId, format, 0)

NoPath == FileName("none", "none", "none", 0)   \* null / undefined

Formats == {"obj", "stl", "ply"}

VARIABLES
    \* ---- ServerMedical3DConverter and the file system it writes
    progressCallbacks,  \* Map scanId -> callback (owner of the callback)
    files,              \* existing files: name -> processingStage written
    cpc,                \* per call: position in convertMedicalImageTo3D
    cargs,              \* per call: [scanId, imagePath, options]
    tempFileToCleanup,  \* per call: the local variable (NoPath = null)
    finalPath,          \* per call: the resolved value (NoPath = none)
    calls,              \* per call: every updateProgress call
                        \*   <<stage, progress, callback that received it>>
    work,               \* per call: <<"begin"|"end"|"throw", stage function>>
    created,            \* per call: files this call wrote
    exportInput,        \* per call: meshPath argument of exportMedicalModel
    \* ---- routes.ts
    scans,              \* storage: scanId -> record, or NoScan
    rpc,                \* per request: position in POST /api/scans/:id/convert
    resp,               \* per request: HTTP status sent (0 = none yet)
    seen,               \* per request: [scanId asked for, processingStatus
                        \*   read by the first getMriScan]
    ppc,                \* per run: position in processImageToModel
    pargs,              \* per run: [scanId, imagePath] given to setTimeout
    pendingProcessing,  \* per scan: in-flight updateMriScan(processing)
                        \*   started by the progress listeners
    \* ---- client Medical3DConverter
    clientPc,           \* per conversion: position in convertImageTo3D
    clientCb,           \* per conversion: constructor got a progressCallback
    clientLog,          \* per conversion: notifications the callback received
    \* ---- serializers
    now,                \* the clock read by new Date()
    serialized,         \* log of [format, scanId, mesh, at, text]
    \* ---- client Medical3DConverter, the data of one conversion
    stagePc,            \* position in the stage sequence of convertImageTo3D
    imageData,          \* ImageData handed to generateMedicalVolume
    volumeData,         \* result of generateMedicalVolume
    enhancedVolume,     \* result of enhanceMedicalImage
    segmentedData,      \* result of segmentAnatomicalStructures
    mesh,               \* result of generateAnatomicalMesh
    emitted,            \* per face of mesh: the unit cell <<x, y, z>> it is for
    touched,            \* volume indices computed by the stage that ran last
    otsu,               \* last calculateOtsuThreshold call:
                        \*   [histogram, totalPixels, threshold, iterations]
    dims,               \* last depth choice: [width, height, depth]
    boundingBox,        \* result of calculateBoundingBox
    heap,               \* the Float32Array buffers allocated, in order
    refs                \* which buffer the data field of each stage's
                        \*   volume is: [volume, enhanced, segmented]

convVars == <<progressCallbacks, files, cpc, cargs, tempFileToCleanup, finalPath,
              calls, work, created, exportInput>>
routeVars == <<scans, rpc, resp, seen, ppc, pargs, pendingProcessing>>
clientVars == <<clientPc, clientCb, clientLog>>
exportVars == <<now, serialized>>
volumeVars == <<stagePc, imageData, volumeData, enhancedVolume, segmentedData,
                mesh, emitted, touched, otsu, dims, boundingBox, heap, refs>>
vars == <<convVars, routeVars, clientVars, exportVars, volumeVars>>

\* ------------------------------------------------------- small utilities
Write(fs, name, content) ==
    [n \in (DOMAIN fs) \cup {name} |-> IF n = name THEN content ELSE fs[n]]

Remove(fs, names) == [n \in (DOMAIN fs) \ names |-> fs[n]]

Exists(fs, name) == name \in DOMAIN fs

RECURSIVE CountIf(_, _)
CountIf(s, v) ==
    IF s = <<>> THEN 0
    ELSE (IF Head(s)[2] = v THEN 1 ELSE 0) + CountIf(Tail(s), v)

\* ------------------------------------------- ServerMedical3DConverter
\* imagePath.startsWith('/objects/')
StartsWithObjects(imagePath) == imagePath.prefix = "/objects/"

\* The literal passed as `progress` with each stage name in
\* convertMedicalImageTo3D.
ProgressAtWrongDownload(stage) ==
    CASE stage = "initialization" -> 0
      [] stage = "validation" -> 5
      [] stage = "download" -> 70
      [] stage = "metadata" -> 10
      [] stage = "preprocessing" -> 20
      [] stage = "volumeGeneration" -> 35
      [] stage = "filtering" -> 50
      [] stage = "segmentation" -> 65
      [] stage = "meshGeneration" -> 80
      [] stage = "postProcessing" -> 90
      [] stage = "export" -> 95
      [] stage = "completed" -> 100
      [] stage = "error" -> -1

ProgressAt(stage) ==
    CASE stage = "initialization" -> 0
      [] stage = "validation" -> 5
      [] stage = "download" -> 7
      [] stage = "metadata" -> 10
      [] stage = "preprocessing" -> 20
      [] stage = "volumeGeneration" -> 35
      [] stage = "filtering" -> 50
      [] stage = "segmentation" -> 65
      [] stage = "meshGeneration" -> 80
      [] stage = "postProcessing" -> 90
      [] stage = "export" -> 95
      [] stage = "completed" -> 100
      [] stage = "error" -> -1

Note(stage) == <<stage, ProgressAt(stage)>>

Notes(stages) == [i \in 1..Len(stages) |-> Note(stages[i])]

\* updateProgress: the callback registered for scanId, if any, receives the
\* notification; with no entry the call does nothing.  The log keeps the
\* call together with the callback that received it (NoCb: nobody).
updateProgress(reg, scanId, log, note) ==
    Append(log, <<note[1], note[2], reg[scanId]>>)

RECURSIVE updateProgressAll(_, _, _, _)
updateProgressAll(reg, scanId, log, notes) ==
    IF notes = <<>> THEN log
    ELSE updateProgressAll(reg, scanId,
                           updateProgress(reg, scanId, log, Head(notes)),
                           Tail(notes))

\* The callback processImageToModel registers starts an un-awaited
\* storage.updateMriScan(processing) when it is handed progress 50; a
\* callback of a direct caller does nothing to the scan.
ListenerUpdates(reg, scanId, notes) ==
    IF reg[scanId] >= 0 THEN CountIf(notes, 50) ELSE 0

\* cleanupTemporaryFiles: unlink each of the six intermediates that exists.
TempSuffixes == {"_preprocessed.tmp", "_volume.tmp", "_filtered.tmp",
                 "_segmented.tmp", "_mesh.tmp", "_optimized.tmp"}

TempFiles(scanId) == {TmpFile(scanId, sfx) : sfx \in TempSuffixes}

cleanupTemporaryFiles(fs, scanId) == Remove(fs, TempFiles(scanId))

\* if (tempFileToCleanup && fs.existsSync(tempFileToCleanup)) unlinkSync(...)
CleanupStaging(fs, temp) ==
    IF temp # NoPath /\ Exists(fs, temp) THEN Remove(fs, {temp}) ELSE fs

\* One uninterrupted piece of convertMedicalImageTo3D for call r: the
\* updateProgress calls it makes, the stage functions it enters and leaves,
\* the files it leaves behind and the position it suspends at.
SegmentWhenListened(r, reg, scanId, pc, stages, events, fs, newFiles) ==
    /\ cpc' = [cpc EXCEPT ![r] = pc]
    /\ calls' = [calls EXCEPT
                   ![r] = updateProgressAll(reg, scanId, @, Notes(stages))]
    /\ work' = [work EXCEPT ![r] = @ \o events]
    /\ files' = IF reg[scanId] = NoCb THEN files ELSE fs
    /\ created' = [created EXCEPT ![r] = @ \cup newFiles]
    /\ pendingProcessing' =
           [pendingProcessing EXCEPT
              ![scanId] = @ + ListenerUpdates(reg, scanId, Notes(stages))]

Segment(r, reg, scanId, pc, stages, events, fs, newFiles) ==
    /\ cpc' = [cpc EXCEPT ![r] = pc]
    /\ calls' = [calls EXCEPT
                   ![r] = updateProgressAll(reg, scanId, @, Notes(stages))]
    /\ work' = [work EXCEPT ![r] = @ \o events]
    /\ files' = fs
    /\ created' = [created EXCEPT ![r] = @ \cup newFiles]
    /\ pendingProcessing' =
           [pendingProcessing EXCEPT
              ![scanId] = @ + ListenerUpdates(reg, scanId, Notes(stages))]

\* The catch block: updateProgress('error', -1), unlink the staging file
\* when tempFileToCleanup is set, rethrow.  It does not call
\* cleanupTemporaryFiles.
RejectsSilent(r, reg, scanId, stages, events, fs, newFiles, temp) ==
    Segment(r, reg, scanId, "rejected", stages, events,
            CleanupStaging(fs, temp), newFiles)

Rejects(r, reg, scanId, stages, events, fs, newFiles, temp) ==
    Segment(r, reg, scanId, "rejected", stages \o <<"error">>, events,
            CleanupStaging(fs, temp), newFiles)

Begin(fn) == <<"begin", fn>>
End(fn) == <<"end", fn>>
Throw(fn) == <<"throw", fn>>

NoArgs == [scanId |-> "none",
           imagePath |-> [prefix |-> "none", name |-> "none"],
           options |-> [meshOptimization |-> FALSE, outputFormats |-> <<>>]]

\* validateMedicalImage, local branch: fs.existsSync(imagePath) and a
\* non-empty file.  Uploaded files are stored as uploads/mri-scan-<uuid>.<ext>,
\* so a path built from an object-storage filename names no file.
LocalImageMayExist(imagePath) == imagePath.prefix = "uploads/"

\* The file preprocessMedicalImage copies: the staging file for an object
\* storage image, the validated local image otherwise.
SourceReadable(fs, r, a) ==
    StartsWithObjects(a.imagePath) => Exists(fs, StagingFile(a.scanId, r))

\* convertMedicalImageTo3D from its entry to its first suspension.  reg is
\* the callback map at the time of the call.
ConvertBegin(r, reg, a) ==
    /\ cpc[r] = "idle"
    /\ cargs' = [cargs EXCEPT ![r] = a]
    /\ UNCHANGED <<tempFileToCleanup, finalPath, exportInput>>
    /\ IF StartsWithObjects(a.imagePath)
       THEN Segment(r, reg, a.scanId, "validation",
                    <<"initialization", "validation">>,
                    <<Begin("validateMedicalImage")>>, files, {})
       ELSE \/ /\ LocalImageMayExist(a.imagePath)
               /\ Segment(r, reg, a.scanId, "preprocessing",
                          <<"initialization", "validation", "metadata",
                            "preprocessing">>,
                          <<Begin("validateMedicalImage"),
                            End("validateMedicalImage"),
                            Begin("extractMedicalMetadata"),
                            End("extractMedicalMetadata"),
                            Begin("preprocessMedicalImage")>>, files, {})
            \/ Rejects(r, reg, a.scanId, <<"initialization", "validation">>,
                       <<Begin("validateMedicalImage"),
                         Throw("validateMedicalImage")>>, files, {}, NoPath)

\* validateMedicalImage, object storage branch: getObjectEntityFile and
\* getMetadata answered with a non-empty object; the download starts.
ValidateReturn(r) ==
    /\ cpc[r] = "validation"
    /\ Segment(r, progressCallbacks, cargs[r].scanId, "download", <<"download">>,
               <<End("validateMedicalImage"),
                 Begin("downloadObjectStorageFile")>>, files, {})
    /\ UNCHANGED <<progressCallbacks, cargs, tempFileToCleanup, finalPath,
                   exportInput>>

\* The object is missing or empty.
ValidateThrow(r) ==
    /\ cpc[r] = "validation"
    /\ Rejects(r, progressCallbacks, cargs[r].scanId, <<>>,
               <<Throw("validateMedicalImage")>>, files, {},
               tempFileToCleanup[r])
    /\ UNCHANGED <<progressCallbacks, cargs, tempFileToCleanup, finalPath,
                   exportInput>>

\* downloadObjectStorageFile: getObjectEntityFile answered, the write stream
\* on uploads/<scanId>_temp_<uuid>.tmp is opened and the pipe started.
DownloadOpen(r) ==
    /\ cpc[r] = "download"
    /\ LET f == StagingFile(cargs[r].scanId, r) IN
       Segment(r, progressCallbacks, cargs[r].scanId, "downloading", <<>>,
               <<>>, Write(files, f, "image"), {f})
    /\ UNCHANGED <<progressCallbacks, cargs, tempFileToCleanup, finalPath,
                   exportInput>>

\* getObjectEntityFile throws inside downloadObjectStorageFile (rethrown as
\* 'Failed to download object storage file').
DownloadLookupThrow(r) ==
    /\ cpc[r] = "download"
    /\ Rejects(r, progressCallbacks, cargs[r].scanId, <<>>,
               <<Throw("downloadObjectStorageFile")>>, files, {},
               tempFileToCleanup[r])
    /\ UNCHANGED <<progressCallbacks, cargs, tempFileToCleanup, finalPath,
                   exportInput>>

\* writeStream 'finish': the promise resolves with tempPath, which only now
\* is assigned to tempFileToCleanup.
DownloadFinish(r) ==
    /\ cpc[r] = "downloading"
    /\ tempFileToCleanup' =
           [tempFileToCleanup EXCEPT ![r] = StagingFile(cargs[r].scanId, r)]
    /\ Segment(r, progressCallbacks, cargs[r].scanId, "preprocessing",
               <<"metadata", "preprocessing">>,
               <<End("downloadObjectStorageFile"),
                 Begin("extractMedicalMetadata"),
                 End("extractMedicalMetadata"),
                 Begin("preprocessMedicalImage")>>, files, {})
    /\ UNCHANGED <<progressCallbacks, cargs, finalPath, exportInput>>

\* writeStream or readStream 'error': the promise rejects while
\* tempFileToCleanup is still null.
DownloadError(r) ==
    /\ cpc[r] = "downloading"
    /\ Rejects(r, progressCallbacks, cargs[r].scanId, <<>>,
               <<Throw("downloadObjectStorageFile")>>, files, {},
               tempFileToCleanup[r])
    /\ UNCHANGED <<progressCallbacks, cargs, tempFileToCleanup, finalPath,
                   exportInput>>

\* A stage function returns after its timer: it has read `input` (when it
\* reads one) and written `output`; the caller notifies the next stage and
\* enters the next stage function.
StageReturns(r, pc, fn, readable, output, content, nextStage, nextFn) ==
    /\ cpc[r] = pc
    /\ readable
    /\ Segment(r, progressCallbacks, cargs[r].scanId, nextStage, <<nextStage>>,
               <<End(fn), Begin(nextFn)>>,
               Write(files, output, content), {output})
    /\ UNCHANGED <<progressCallbacks, cargs, tempFileToCleanup, finalPath,
                   exportInput>>

\* preprocessMedicalImage: fs.copyFileSync(imagePath, <scanId>_preprocessed.tmp)
PreprocessReturn(r) ==
    StageReturns(r, "preprocessing", "preprocessMedicalImage",
                 SourceReadable(files, r, cargs[r]),
                 TmpFile(cargs[r].scanId, "_preprocessed.tmp"), "image",
                 "volumeGeneration", "generateMedicalVolume")

\* generateMedicalVolume: writes <scanId>_volume.tmp (its imagePath argument
\* is not read).
VolumeReturnSkipsFiltering(r) ==
    StageReturns(r, "volumeGeneration", "generateMedicalVolume", TRUE,
                 TmpFile(cargs[r].scanId, "_volume.tmp"), "volume_generation",
                 "segmentation", "performMedicalSegmentation")

VolumeReturn(r) ==
    StageReturns(r, "volumeGeneration", "generateMedicalVolume", TRUE,
                 TmpFile(cargs[r].scanId, "_volume.tmp"), "volume_generation",
                 "filtering", "applyMedicalFilters")

\* applyMedicalFilters: reads _volume.tmp, writes _filtered.tmp
FilterReturn(r) ==
    StageReturns(r, "filtering", "applyMedicalFilters",
                 Exists(files, TmpFile(cargs[r].scanId, "_volume.tmp")),
                 TmpFile(cargs[r].scanId, "_filtered.tmp"), "filtered",
                 "segmentation", "performMedicalSegmentation")

\* performMedicalSegmentation: reads _filtered.tmp, writes _segmented.tmp
SegmentationReturn(r) ==
    StageReturns(r, "segmentation", "performMedicalSegmentation",
                 Exists(files, TmpFile(cargs[r].scanId, "_filtered.tmp")),
                 TmpFile(cargs[r].scanId, "_segmented.tmp"), "segmented",
                 "meshGeneration", "generateAnatomicalMesh")

\* optimizeMedicalMesh, first statement: if (!options.meshOptimization)
\* return meshPath.
SkipsOptimizationNever(options) == FALSE

SkipsOptimization(options) == ~options.meshOptimization

\* generateAnatomicalMesh returns: reads _segmented.tmp, writes _mesh.tmp.
\* The caller notifies postProcessing and calls optimizeMedicalMesh, which
\* either returns meshPath at once (export is notified and entered in the
\* same turn) or starts its timer.
MeshReturn(r) ==
    LET sid == cargs[r].scanId
        meshPath == TmpFile(sid, "_mesh.tmp")
        fs == Write(files, meshPath, "mesh_generated")
    IN
    /\ cpc[r] = "meshGeneration"
    /\ Exists(files, TmpFile(sid, "_segmented.tmp"))
    /\ IF SkipsOptimization(cargs[r].options)
       THEN /\ Segment(r, progressCallbacks, sid, "export",
                       <<"postProcessing", "export">>,
                       <<End("generateAnatomicalMesh"),
                         Begin("optimizeMedicalMesh"),
                         End("optimizeMedicalMesh"),
                         Begin("exportMedicalModel")>>, fs, {meshPath})
            /\ exportInput' = [exportInput EXCEPT ![r] = meshPath]
       ELSE /\ Segment(r, progressCallbacks, sid, "postProcessing",
                       <<"postProcessing">>,
                       <<End("generateAnatomicalMesh"),
                         Begin("optimizeMedicalMesh")>>, fs, {meshPath})
            /\ UNCHANGED exportInput
    /\ UNCHANGED <<progressCallbacks, cargs, tempFileToCleanup, finalPath>>

\* optimizeMedicalMesh after its timer: reads meshPath, writes
\* <scanId>_optimized.tmp and returns that path.
OptimizeReturn(r) ==
    LET sid == cargs[r].scanId
        optimizedPath == TmpFile(sid, "_optimized.tmp")
    IN
    /\ cpc[r] = "postProcessing"
    /\ Exists(files, TmpFile(sid, "_mesh.tmp"))
    /\ Segment(r, progressCallbacks, sid, "export", <<"export">>,
               <<End("optimizeMedicalMesh"), Begin("exportMedicalModel")>>,
               Write(files, optimizedPath, "optimized"), {optimizedPath})
    /\ exportInput' = [exportInput EXCEPT ![r] = optimizedPath]
    /\ UNCHANGED <<progressCallbacks, cargs, tempFileToCleanup, finalPath>>

\* exportMedicalModel, the loop: fs.writeFileSync of the first k formats of
\* options.outputFormats.
ExportWritesFirstOnly(fs, scanId, formats, k) ==
    IF k = 0 THEN fs
    ELSE Write(fs, ExportFile(scanId, formats[1]), formats[1])

RECURSIVE ExportWrites(_, _, _, _)
ExportWrites(fs, scanId, formats, k) ==
    IF k = 0 THEN fs
    ELSE Write(ExportWrites(fs, scanId, formats, k - 1),
               ExportFile(scanId, formats[k]), formats[k])

ExportedFiles(scanId, formats, k) ==
    {ExportFile(scanId, formats[i]) : i \in 1..k}

\* const primaryFormat = outputFormats.includes('obj') ? 'obj' : outputFormats[0]
PrimaryFormat(formats) ==
    IF \E i \in 1..Len(formats) : formats[i] = "obj" THEN "obj" ELSE formats[1]

\* exportMedicalModel returns after its timer with every format written;
\* then 'completed' is notified, cleanupTemporaryFiles and the staging file
\* cleanup run, and the call resolves with the primary format's path.
ExportReturn(r) ==
    LET sid == cargs[r].scanId
        fmts == cargs[r].options.outputFormats
        written == ExportWrites(files, sid, fmts, Len(fmts))
    IN
    /\ cpc[r] = "export"
    /\ Segment(r, progressCallbacks, sid, "resolved", <<"completed">>,
               <<End("exportMedicalModel"), Begin("cleanupTemporaryFiles"),
                 End("cleanupTemporaryFiles")>>,
               CleanupStaging(cleanupTemporaryFiles(written, sid),
                              tempFileToCleanup[r]),
               ExportedFiles(sid, fmts, Len(fmts)))
    /\ finalPath' = [finalPath EXCEPT ![r] = ExportFile(sid, PrimaryFormat(fmts))]
    /\ UNCHANGED <<progressCallbacks, cargs, tempFileToCleanup, exportInput>>

\* fs.writeFileSync throws on format k+1 of the loop: the first k exports
\* stay on disk and the error reaches the catch block.
ExportThrow(r) ==
    LET sid == cargs[r].scanId
        fmts == cargs[r].options.outputFormats
    IN
    /\ cpc[r] = "export"
    /\ \E k \in 0..(Len(fmts) - 1) :
          Rejects(r, progressCallbacks, sid, <<>>,
                  <<Throw("exportMedicalModel")>>,
                  ExportWrites(files, sid, fmts, k),
                  ExportedFiles(sid, fmts, k), tempFileToCleanup[r])
    /\ UNCHANGED <<progressCallbacks, cargs, tempFileToCleanup, finalPath,
                   exportInput>>

\* The stage function suspended at each position.
StageFn(pc) ==
    CASE pc = "preprocessing" -> "preprocessMedicalImage"
      [] pc = "volumeGeneration" -> "generateMedicalVolume"
      [] pc = "filtering" -> "applyMedicalFilters"
      [] pc = "segmentation" -> "performMedicalSegmentation"
      [] pc = "meshGeneration" -> "generateAnatomicalMesh"
      [] pc = "postProcessing" -> "optimizeMedicalMesh"

FileStages == {"preprocessing", "volumeGeneration", "filtering",
               "segmentation", "meshGeneration", "postProcessing"}

\* A file-writing stage throws after its timer (its input is missing or
\* unreadable, or the write fails): nothing is written by it and control
\* goes to the catch block.
StageThrow(r) ==
    /\ cpc[r] \in FileStages
    /\ Rejects(r, progressCallbacks, cargs[r].scanId, <<>>,
               <<Throw(StageFn(cpc[r]))>>, files, {}, tempFileToCleanup[r])
    /\ UNCHANGED <<progressCallbacks, cargs, tempFileToCleanup, finalPath,
                   exportInput>>

\* registerProgressCallback / unregisterProgressCallback
registerProgressCallback(reg, scanId, callback) ==
    [reg EXCEPT ![scanId] = callback]

unregisterProgressCallbackKeeps(reg, scanId) == reg

unregisterProgressCallback(reg, scanId) == [reg EXCEPT ![scanId] = NoCb]

\* The steps of a call of convertMedicalImageTo3D after its entry.
ConvertStep(r) ==
    \/ ValidateReturn(r) \/ ValidateThrow(r)
    \/ DownloadOpen(r) \/ DownloadLookupThrow(r)
    \/ DownloadFinish(r) \/ DownloadError(r)
    \/ PreprocessReturn(r) \/ VolumeReturn(r) \/ FilterReturn(r)
    \/ SegmentationReturn(r) \/ MeshReturn(r) \/ OptimizeReturn(r)
    \/ StageThrow(r)
    \/ ExportReturn(r) \/ ExportThrow(r)

\* What the listeners of call r received.
Received(log) == SelectSeq(log, LAMBDA n : n[3] # NoCb)

Delivered(r) == Received(calls[r])

\* ------------------------------------------ client Medical3DConverter
\* The literal passed as `progress` with each stage name in convertImageTo3D.
ClientProgressAt(stage) ==
    CASE stage = "initialization" -> 0
      [] stage = "loading" -> 10
      [] stage = "volumeGeneration" -> 25
      [] stage = "filtering" -> 40
      [] stage = "segmentation" -> 55
      [] stage = "meshGeneration" -> 70
      [] stage = "optimization" -> 85
      [] stage = "export" -> 95
      [] stage = "completed" -> 100

\* Medical3DConverter.updateProgress: if (this.progressCallback) call it.
ClientUpdateProgress(cb, log, stages) ==
    IF cb THEN log \o [i \in 1..Len(stages) |->
                          <<stages[i], ClientProgressAt(stages[i])>>]
    ELSE log

\* The stages convertImageTo3D notifies after the image is loaded, in order.
ClientStages == <<"volumeGeneration", "filtering", "segmentation",
                  "meshGeneration", "optimization", "export">>

\* The stages whose function can throw (typed array or string allocation
\* on a large image); optimizeMedicalMesh and finalizeMedicalModel only
\* return their argument.
ClientThrowingStages == 1..4

\* new Medical3DConverter(cb).convertImageTo3D(file) up to the suspension in
\* loadMedicalImage.
ClientStart(j, cb) ==
    /\ clientPc[j] = "idle"
    /\ cpc[j] = "idle"
    /\ clientCb' = [clientCb EXCEPT ![j] = cb]
    /\ clientLog' = [clientLog EXCEPT
                       ![j] = ClientUpdateProgress(cb, @,
                                  <<"initialization", "loading">>)]
    /\ clientPc' = [clientPc EXCEPT ![j] = "loading"]
    /\ UNCHANGED <<convVars, routeVars, exportVars, volumeVars>>

\* img.onerror, or getImageData returned nothing: loadMedicalImage rejects;
\* the catch block logs and rethrows, it does not call updateProgress.
ClientLoadError(j) ==
    /\ clientPc[j] = "loading"
    /\ clientPc' = [clientPc EXCEPT ![j] = "rejected"]
    /\ UNCHANGED <<clientCb, clientLog, convVars, routeVars, exportVars, volumeVars>>

\* img.onload: the remaining stages run without suspending.  Either all of
\* them return and 'completed' is notified, or stage number failAt throws
\* after its notification.
ClientPipeline(j) ==
    /\ clientPc[j] = "loading"
    /\ \E failAt \in {0} \cup ClientThrowingStages :
          IF failAt = 0
          THEN /\ clientLog' = [clientLog EXCEPT
                     ![j] = ClientUpdateProgress(clientCb[j], @,
                                ClientStages \o <<"completed">>)]
               /\ clientPc' = [clientPc EXCEPT ![j] = "resolved"]
          ELSE /\ clientLog' = [clientLog EXCEPT
                     ![j] = ClientUpdateProgress(clientCb[j], @,
                                SubSeq(ClientStages, 1, failAt))]
               /\ clientPc' = [clientPc EXCEPT ![j] = "rejected"]
    /\ UNCHANGED <<clientCb, convVars, routeVars, exportVars, volumeVars>>

\* --------------------------------- client Medical3DConverter, the data
\* ImageData: width, height and the RGBA bytes, row by row.
NoImage == [width |-> 0, height |-> 0, data |-> <<>>]

\* MedicalImageData: width, height, depth, the contents of the Float32Array
\* data, spacing and origin.
NoVolume ==
    [width |-> 0, height |-> 0, depth |-> 0, data |-> <<>>,
     spacing |-> <<0, 0, 0>>, origin |-> <<0, 0, 0>>]

\* Mesh3D before anything is pushed: vertices, faces and normals are [].
NoMesh == [vertices |-> <<>>, faces |-> <<>>, normals |-> <<>>]

NoOtsu == [histogram |-> <<>>, totalPixels |-> 0, threshold |-> 0,
           iterations |-> 0]

NoDims == [width |-> 0, height |-> 0, depth |-> 0]

\* Mesh3D['boundingBox'] before calculateBoundingBox has run.
NoBox == [min |-> [x |-> 0, y |-> 0, z |-> 0], max |-> [x |-> 0, y |-> 0, z |-> 0]]

\* No stage has returned a volume: no data field points at a buffer.
NoRefs == [volume |-> 0, enhanced |-> 0, segmented |-> 0]

\* ------------------------------------------------------------ SpecConv
\* Direct use of the converters: callers register and unregister listeners
\* and call convertMedicalImageTo3D with arguments of their choice; pages
\* run the client converter.
ImagePaths == {[prefix |-> "/objects/", name |-> "img"],
               [prefix |-> "uploads/", name |-> "img"]}

FormatLists == {<<"obj", "stl">>, <<"stl", "ply">>, <<"ply">>}

OptionSet == [meshOptimization : BOOLEAN, outputFormats : FormatLists]

ArgSet == [scanId : ScanIds, imagePath : ImagePaths, options : OptionSet]

\* A row of mri_scans (the columns the conversion touches), or no row.
NoScan == [exists |-> FALSE, filename |-> NoArgs.imagePath,
           processingStatus |-> "none", threeDModelPath |-> NoPath,
           analysisCompleted |-> FALSE]

InitConv ==
    /\ progressCallbacks = [s \in ScanIds |-> NoCb]
    /\ files = <<>>
    /\ cpc = [r \in Ids |-> "idle"]
    /\ cargs = [r \in Ids |-> NoArgs]
    /\ tempFileToCleanup = [r \in Ids |-> NoPath]
    /\ finalPath = [r \in Ids |-> NoPath]
    /\ calls = [r \in Ids |-> <<>>]
    /\ work = [r \in Ids |-> <<>>]
    /\ created = [r \in Ids |-> {}]
    /\ exportInput = [r \in Ids |-> NoPath]

InitIdle ==
    /\ InitConv
    /\ scans = [s \in ScanIds |-> NoScan]
    /\ rpc = [q \in Ids |-> "idle"]
    /\ resp = [q \in Ids |-> 0]
    /\ seen = [q \in Ids |-> [scanId |-> "none", status |-> "none"]]
    /\ ppc = [r \in Ids |-> "none"]
    /\ pargs = [r \in Ids |-> [scanId |-> "none", imagePath |-> NoArgs.imagePath]]
    /\ pendingProcessing = [s \in ScanIds |-> 0]
    /\ clientPc = [j \in Ids |-> "idle"]
    /\ clientCb = [j \in Ids |-> FALSE]
    /\ clientLog = [j \in Ids |-> <<>>]
    /\ now = 0
    /\ serialized = <<>>
    /\ stagePc = "idle"
    /\ imageData = NoImage
    /\ volumeData = NoVolume
    /\ enhancedVolume = NoVolume
    /\ segmentedData = NoVolume
    /\ mesh = NoMesh
    /\ emitted = <<>>
    /\ touched = {}
    /\ otsu = NoOtsu
    /\ dims = NoDims
    /\ boundingBox = NoBox
    /\ heap = <<>>
    /\ refs = NoRefs

\* A caller runs convertMedicalImageTo3D(a.imagePath, a.scanId, a.options),
\* after registerProgressCallback(a.scanId, cb) when it wants to listen.
DirectCall(j, a, listen) ==
    LET reg == IF listen
               THEN registerProgressCallback(progressCallbacks, a.scanId,
                                             CallerCb(j))
               ELSE progressCallbacks
    IN
    /\ clientPc[j] = "idle"
    /\ progressCallbacks' = reg
    /\ ConvertBegin(j, reg, a)
    /\ UNCHANGED <<scans, rpc, resp, seen, ppc, pargs, clientVars, exportVars, volumeVars>>

DirectStep(j) ==
    /\ ConvertStep(j)
    /\ UNCHANGED <<scans, rpc, resp, seen, ppc, pargs, clientVars, exportVars, volumeVars>>

NextConv ==
    \/ \E j \in Jobs, a \in ArgSet, listen \in BOOLEAN : DirectCall(j, a, listen)
    \/ \E j \in Jobs : DirectStep(j)
    \/ \E j \in Jobs, cb \in BOOLEAN : ClientStart(j, cb)
    \/ \E j \in Jobs : ClientLoadError(j) \/ ClientPipeline(j)

SpecConv == InitIdle /\ [][NextConv]_vars

\* ---------------------------------------------------------------- routes
\* The options processImageToModel passes to the converter.
PimOptions == [meshOptimization |-> TRUE, outputFormats |-> <<"obj", "stl">>]

MimeTypes == {"image/jpeg", "image/png", "application/pdf"}
AllowedMimeTypes == {"image/jpeg", "image/png"}

\* storage.createMriScan with processingStatus "pending"
NewScan(filename) ==
    [exists |-> TRUE, filename |-> filename, processingStatus |-> "pending",
     threeDModelPath |-> NoPath, analysisCompleted |-> FALSE]

\* POST /api/scans/create: after the field, type and size checks the scan is
\* stored as pending under its object storage path and processImageToModel
\* is scheduled on that path.  (A request failing a check answers 400 and
\* changes nothing.)
CreateScan(s, mimeType) ==
    LET objectPath == [prefix |-> "/objects/", name |-> "img"] IN
    /\ ~scans[s].exists
    /\ mimeType \in AllowedMimeTypes
    /\ scans' = [scans EXCEPT ![s] = NewScan(objectPath)]
    /\ ppc' = [ppc EXCEPT ![AutoRun] = "timer"]
    /\ pargs' = [pargs EXCEPT ![AutoRun] = [scanId |-> s, imagePath |-> objectPath]]
    /\ UNCHANGED <<rpc, resp, seen, pendingProcessing, convVars, clientVars,
                   exportVars, volumeVars>>

\* POST /api/scans/upload: the validated file stays in uploads/ and the scan
\* is stored as pending; no processing is scheduled.
UploadScan(s) ==
    /\ ~scans[s].exists
    /\ scans' = [scans EXCEPT ![s] = NewScan([prefix |-> "", name |-> "img"])]
    /\ UNCHANGED <<rpc, resp, seen, ppc, pargs, pendingProcessing, convVars,
                   clientVars, exportVars, volumeVars>>

\* The guard of POST /api/scans/:id/convert.
AlreadyStartedOnlyProcessing(status) == status = "processing"

AlreadyStarted(status) == status = "processing" \/ status = "completed"

\* const uploadPath = `uploads/${scan.filename}`
UploadPath(filename) ==
    [prefix |-> IF filename.prefix = "" THEN "uploads/"
                ELSE "uploads/" \o "/" \o filename.prefix,
     name |-> filename.name]

\* POST /api/scans/:id/convert, from the request to the answer of the first
\* getMriScan: 404 for an unknown scan, 400 for one already processing or
\* completed, otherwise updateMriScan(processing) is sent.
ConvertRead(q, s) ==
    /\ rpc[q] = "idle"
    /\ seen' = [seen EXCEPT ![q] = [scanId |-> s,
                                    status |-> scans[s].processingStatus]]
    /\ IF ~scans[s].exists
       THEN /\ resp' = [resp EXCEPT ![q] = 404]
            /\ rpc' = [rpc EXCEPT ![q] = "done"]
       ELSE IF AlreadyStarted(scans[s].processingStatus)
       THEN /\ resp' = [resp EXCEPT ![q] = 400]
            /\ rpc' = [rpc EXCEPT ![q] = "done"]
       ELSE /\ rpc' = [rpc EXCEPT ![q] = "updating"]
            /\ UNCHANGED resp
    /\ UNCHANGED <<scans, ppc, pargs, pendingProcessing, convVars, clientVars,
                   exportVars, volumeVars>>

\* The update reaches the database; the handler then schedules
\* processImageToModel(scan.id, uploadPath) and sends the second getMriScan.
\* uploadPath is built from the scan read at the start of the request.
ConvertUpdate(q) ==
    LET s == seen[q].scanId IN
    /\ rpc[q] = "updating"
    /\ scans' = [scans EXCEPT ![s].processingStatus = "processing"]
    /\ ppc' = [ppc EXCEPT ![q] = "timer"]
    /\ pargs' = [pargs EXCEPT ![q] = [scanId |-> s,
                                      imagePath |-> UploadPath(scans[s].filename)]]
    /\ rpc' = [rpc EXCEPT ![q] = "responding"]
    /\ UNCHANGED <<resp, seen, pendingProcessing, convVars, clientVars,
                   exportVars, volumeVars>>

\* res.json(updatedScan)
ConvertRespond(q) ==
    /\ rpc[q] = "responding"
    /\ resp' = [resp EXCEPT ![q] = 200]
    /\ rpc' = [rpc EXCEPT ![q] = "done"]
    /\ UNCHANGED <<scans, seen, ppc, pargs, pendingProcessing, convVars,
                   clientVars, exportVars, volumeVars>>

\* The timer fires: processImageToModel registers its listener and calls
\* convertMedicalImageTo3D, which runs to its first suspension.
PimStart(r) ==
    LET reg == registerProgressCallback(progressCallbacks, pargs[r].scanId, r) IN
    /\ ppc[r] = "timer"
    /\ ppc' = [ppc EXCEPT ![r] = "converting"]
    /\ progressCallbacks' = reg
    /\ ConvertBegin(r, reg, [scanId |-> pargs[r].scanId,
                             imagePath |-> pargs[r].imagePath,
                             options |-> PimOptions])
    /\ UNCHANGED <<scans, rpc, resp, seen, pargs, clientVars, exportVars, volumeVars>>

PimConvert(r) ==
    /\ ppc[r] = "converting"
    /\ ConvertStep(r)
    /\ UNCHANGED <<scans, rpc, resp, seen, ppc, pargs, clientVars, exportVars, volumeVars>>

\* The update started by a listener at progress 50 reaches the database.
ListenerUpdate(s) ==
    /\ pendingProcessing[s] > 0
    /\ pendingProcessing' = [pendingProcessing EXCEPT ![s] = @ - 1]
    /\ scans' = [scans EXCEPT ![s].processingStatus = "processing"]
    /\ UNCHANGED <<rpc, resp, seen, ppc, pargs, convVars, clientVars, exportVars, volumeVars>>

\* The conversion resolved: updateMriScan(completed, /models/<basename>)
\* reaches the database; simulateAnomalyDetection starts its timer.
PimCompletedWrite(r) ==
    /\ ppc[r] = "converting" /\ cpc[r] = "resolved"
    /\ scans' = [scans EXCEPT ![pargs[r].scanId].processingStatus = "completed",
                              ![pargs[r].scanId].threeDModelPath = finalPath[r]]
    /\ ppc' = [ppc EXCEPT ![r] = "detecting"]
    /\ UNCHANGED <<rpc, resp, seen, pargs, pendingProcessing, convVars,
                   clientVars, exportVars, volumeVars>>

\* simulateAnomalyDetection returned and updateMriScan(detections) was
\* answered: generateAnalysisReport and createAnalysisReport run.
PimDetected(r) ==
    /\ ppc[r] = "detecting"
    /\ ppc' = [ppc EXCEPT ![r] = "reporting"]
    /\ UNCHANGED <<scans, rpc, resp, seen, pargs, pendingProcessing, convVars,
                   clientVars, exportVars, volumeVars>>

\* The report is stored; updateMriScan(analysisCompleted: true) reaches the
\* database.
PimAnalysisWrite(r) ==
    /\ ppc[r] = "reporting"
    /\ scans' = [scans EXCEPT ![pargs[r].scanId].analysisCompleted = TRUE]
    /\ ppc' = [ppc EXCEPT ![r] = "finally"]
    /\ UNCHANGED <<rpc, resp, seen, pargs, pendingProcessing, convVars,
                   clientVars, exportVars, volumeVars>>

\* Report generation throws: the inner catch logs it and the finally block
\* unregisters the listener.
PimReportThrow(r) ==
    /\ ppc[r] \in {"detecting", "reporting"}
    /\ ppc' = [ppc EXCEPT ![r] = "done"]
    /\ progressCallbacks' =
           unregisterProgressCallback(progressCallbacks, pargs[r].scanId)
    /\ UNCHANGED <<files, cpc, cargs, tempFileToCleanup, finalPath, calls, work,
                   created, exportInput, scans, rpc, resp, seen, pargs,
                   pendingProcessing, clientVars, exportVars, volumeVars>>

\* The conversion rejected: the outer catch sends
\* updateMriScan(processingStatus: "completed"), which reaches the database.
PimFailedWrite(r) ==
    /\ ppc[r] = "converting" /\ cpc[r] = "rejected"
    /\ scans' = [scans EXCEPT ![pargs[r].scanId].processingStatus = "completed"]
    /\ ppc' = [ppc EXCEPT ![r] = "finally"]
    /\ UNCHANGED <<rpc, resp, seen, pargs, pendingProcessing, convVars,
                   clientVars, exportVars, volumeVars>>

\* finally: medical3DConverter.unregisterProgressCallback(scanId)
PimFinally(r) ==
    /\ ppc[r] = "finally"
    /\ ppc' = [ppc EXCEPT ![r] = "done"]
    /\ progressCallbacks' =
           unregisterProgressCallback(progressCallbacks, pargs[r].scanId)
    /\ UNCHANGED <<files, cpc, cargs, tempFileToCleanup, finalPath, calls, work,
                   created, exportInput, scans, rpc, resp, seen, pargs,
                   pendingProcessing, clientVars, exportVars, volumeVars>>

Runs == {AutoRun} \cup ConvertReqs

Init == InitIdle

Next ==
    \/ \E s \in ScanIds, m \in MimeTypes : CreateScan(s, m)
    \/ \E s \in ScanIds : UploadScan(s)
    \/ \E q \in ConvertReqs, s \in ScanIds : ConvertRead(q, s)
    \/ \E q \in ConvertReqs : ConvertUpdate(q) \/ ConvertRespond(q)
    \/ \E r \in Runs : PimStart(r) \/ PimConvert(r)
    \/ \E s \in ScanIds : ListenerUpdate(s)
    \/ \E r \in Runs : PimCompletedWrite(r) \/ PimDetected(r)
    \/ \E r \in Runs : PimAnalysisWrite(r) \/ PimReportThrow(r)
    \/ \E r \in Runs : PimFailedWrite(r) \/ PimFinally(r)

Spec == Init /\ [][Next]_vars

\* ----------------------------------------------------------- serializers
\* A text is its sequence of lines; a line is the sequence of its
\* blank-separated fields.  Interpolated values (${scanId}, the date) are
\* fields of their own.

\* new Date().toISOString(): the text of the clock reading.
ToISOString(t) == <<"iso", t>>

\* generateOBJContent(scanId)
generateOBJContent(scanId, t) ==
    << <<"#", "Medical 3D Model - Scan ID:", scanId>>,
       <<"#", "Generated by Medical Research Platform">>,
       <<"#", "Date:", ToISOString(t)>>,
       <<>>,
       <<"#", "Vertices">>,
       <<"v", "0.0", "0.0", "0.0">>,
       <<"v", "1.0", "0.0", "0.0">>,
       <<"v", "0.5", "1.0", "0.0">>,
       <<"v", "0.5", "0.5", "1.0">>,
       <<>>,
       <<"#", "Texture coordinates">>,
       <<"vt", "0.0", "0.0">>,
       <<"vt", "1.0", "0.0">>,
       <<"vt", "0.5", "1.0">>,
       <<>>,
       <<"#", "Normals">>,
       <<"vn", "0.0", "0.0", "1.0">>,
       <<"vn", "0.0", "1.0", "0.0">>,
       <<"vn", "1.0", "0.0", "0.0">>,
       <<>>,
       <<"#", "Faces">>,
       <<"f", "1/1/1", "2/2/2", "3/3/3">>,
       <<"f", "1/1/1", "3/3/3", "4/1/1">>,
       <<"f", "2/2/2", "3/3/3", "4/1/1">>,
       <<"f", "1/1/1", "2/2/2", "4/1/1">>,
       <<>>,
       <<"#", "Medical metadata">>,
       <<"#", "Modality: MR">>,
       <<"#", "Anatomical Region: Brain">>,
       <<"#", "Processing: Enhanced for medical visualization">>,
       <<>> >>

\* generateSTLContent(scanId)
generateSTLContent(scanId) ==
    << <<"solid", "Medical_Model_", scanId>>,
       <<"facet", "normal", "0.0", "0.0", "1.0">>,
       <<"outer", "loop">>,
       <<"vertex", "0.0", "0.0", "0.0">>,
       <<"vertex", "1.0", "0.0", "0.0">>,
       <<"vertex", "0.5", "1.0", "0.0">>,
       <<"endloop">>,
       <<"endfacet">>,
       <<"facet", "normal", "0.0", "1.0", "0.0">>,
       <<"outer", "loop">>,
       <<"vertex", "0.0", "0.0", "0.0">>,
       <<"vertex", "0.5", "1.0", "0.0">>,
       <<"vertex", "0.5", "0.5", "1.0">>,
       <<"endloop">>,
       <<"endfacet">>,
       <<"endsolid", "Medical_Model_", scanId>> >>

\* generatePLYContent(scanId)
generatePLYContent(scanId) ==
    << <<"ply">>,
       <<"format", "ascii", "1.0">>,
       <<"comment", "Medical 3D Model - Scan ID:", scanId>>,
       <<"comment", "Generated by Medical Research Platform">>,
       <<"element", "vertex", "4">>,
       <<"property", "float", "x">>,
       <<"property", "float", "y">>,
       <<"property", "float", "z">>,
       <<"element", "face", "4">>,
       <<"property", "list", "uchar", "int", "vertex_indices">>,
       <<"end_header">>,
       <<"0.0", "0.0", "0.0">>,
       <<"1.0", "0.0", "0.0">>,
       <<"0.5", "1.0", "0.0">>,
       <<"0.5", "0.5", "1.0">>,
       <<"3", "0", "1", "2">>,
       <<"3", "0", "2", "3">>,
       <<"3", "1", "2", "3">>,
       <<"3", "0", "1", "3">> >>

\* The switch of exportMedicalModel.
ExportContent(format, scanId, t) ==
    CASE format = "obj" -> generateOBJContent(scanId, t)
      [] format = "stl" -> generateSTLContent(scanId)
      [] format = "ply" -> generatePLYContent(scanId)

\* `${n}` for an integer n: its decimal digits, with a leading "-".
Digit(d) == <<"0", "1", "2", "3", "4", "5", "6", "7", "8", "9">>[d + 1]

RECURSIVE NatToString(_)
NatToString(n) ==
    IF n < 10 THEN <<Digit(n)>>
    ELSE Append(NatToString(n \div 10), Digit(n % 10))

NumberToString(n) ==
    IF n < 0 THEN <<"-">> \o NatToString(0 - n) ELSE NatToString(n)

\* arr[i] || 0 on a JavaScript array (0-based; a missing element is undefined)
OrZero(arr, i) == IF i >= 0 /\ i < Len(arr) THEN arr[i + 1] ELSE 0

\* Medical3DConverter.generateSTLData(vertices, faces, normals): the facet
\* block of the face starting at index i of `faces`.  The normal is read at
\* normals[i .. i+2].
STLFacet(vertices, faces, normals, i) ==
    LET v1 == faces[i + 1] * 3
        v2 == faces[i + 2] * 3
        v3 == faces[i + 3] * 3
        normalIndex == i
        num(arr, k) == NumberToString(OrZero(arr, k))
    IN << <<"facet", "normal", num(normals, normalIndex),
            num(normals, normalIndex + 1), num(normals, normalIndex + 2)>>,
          <<"outer", "loop">>,
          <<"vertex", num(vertices, v1), num(vertices, v1 + 1), num(vertices, v1 + 2)>>,
          <<"vertex", num(vertices, v2), num(vertices, v2 + 1), num(vertices, v2 + 2)>>,
          <<"vertex", num(vertices, v3), num(vertices, v3 + 1), num(vertices, v3 + 2)>>,
          <<"endloop">>,
          <<"endfacet">> >>

RECURSIVE STLFacets(_, _, _, _)
STLFacets(vertices, faces, normals, i) ==
    IF i >= Len(faces) THEN <<>>
    ELSE STLFacet(vertices, faces, normals, i)
             \o STLFacets(vertices, faces, normals, i + 3)

generateSTLData(vertices, faces, normals) ==
    << <<"solid", "MedicalModel">> >>
        \o STLFacets(vertices, faces, normals, 0)
        \o << <<"endsolid", "MedicalModel">> >>

\* Meshes in the layout generateAnatomicalMesh builds: three fresh vertices
\* per face, the face normal stored once per vertex.
OneTriangle ==
    [vertices |-> <<0, 0, 0, 1, 0, 0, 0, 1, 0>>,
     faces |-> <<0, 1, 2>>,
     normals |-> <<0, 0, 1, 0, 0, 1, 0, 0, 1>>]

TwoTriangles ==
    [vertices |-> <<0, 0, 0, 1, 0, 0, 0, 1, 0, 1, 2, 0, 1, 3, 0, 2, 2, 0>>,
     faces |-> <<0, 1, 2, 3, 4, 5>>,
     normals |-> <<0, 0, 1, 0, 0, 1, 0, 0, 1, 0, 0, -1, 0, 0, -1, 0, 0, -1>>]

TestMeshes == {OneTriangle, TwoTriangles}

\* ------------------------------------------------------------ SpecExport
\* The serializers are called again and again while the clock advances.
Tick ==
    /\ now < MaxClock
    /\ now' = now + 1
    /\ UNCHANGED <<serialized, convVars, routeVars, clientVars, volumeVars>>

\* One of generateOBJContent / generateSTLContent / generatePLYContent runs
\* for scan s (the model they write is built into them).
SerializeServer(format, s) ==
    /\ Len(serialized) < MaxSerial
    /\ serialized' = Append(serialized,
           [side |-> "server", format |-> format, scanId |-> s, mesh |-> NoMesh,
            text |-> ExportContent(format, s, now)])
    /\ UNCHANGED <<now, convVars, routeVars, clientVars, volumeVars>>

\* generateSTLData runs on mesh m.
SerializeClient(m) ==
    /\ Len(serialized) < MaxSerial
    /\ serialized' = Append(serialized,
           [side |-> "client", format |-> "stl", scanId |-> "none", mesh |-> m,
            text |-> generateSTLData(m.vertices, m.faces, m.normals)])
    /\ UNCHANGED <<now, convVars, routeVars, clientVars, volumeVars>>

NextExport ==
    \/ Tick
    \/ \E f \in Formats, s \in ScanIds : SerializeServer(f, s)
    \/ \E m \in TestMeshes : SerializeClient(m)

SpecExport == InitIdle /\ [][NextExport]_vars

\* ------------------------- client Medical3DConverter, the stage functions
\* Voxel values are fixed-point numbers: the integer v stands for v / Scale.
\* Math.exp is tabulated to three decimals.
Scale == 100

Max2(a, b) == IF a >= b THEN a ELSE b

Min2(a, b) == IF a <= b THEN a ELSE b

Abs(a) == IF a < 0 THEN 0 - a ELSE a

\* typed array read: arr[i], 0 standing for the undefined of an index
\* outside the array
At(arr, i) == IF i >= 0 /\ i < Len(arr) THEN arr[i + 1] ELSE 0

\* const depth = Math.max(32, Math.min(64, Math.floor((width + height) / 20)))
VolumeDepthUnclamped(width, height) == Max2(32, (width + height) \div 20)

VolumeDepth(width, height) == Max2(32, Min2(64, (width + height) \div 20))

\* const volumeSize = width * height * depth
VolumeSizeOneSlice(width, height, depth) == width * height

VolumeSize(width, height, depth) == width * height * depth

\* z * width * height + y * width + x
VolumeIndex(x, y, z, width, height) == z * width * height + y * width + x

\* The <<x, y, z>> the three nested loops visit.
Cells(width, height, depth) ==
    (0..(width - 1)) \X (0..(height - 1)) \X (0..(depth - 1))

\* The cell the loops are at when they compute index i.
CellAt(i, width, height) ==
    <<i % width, (i \div width) % height, i \div (width * height)>>

\* const imageIndex = (y * width + x) * 4
ImageIndex(x, y, width) == (y * width + x) * 4

\* 0.299 * r + 0.587 * g + 0.114 * b
MedicalGray(r, g, b) == ((299 * r + 587 * g + 114 * b) * Scale) \div 1000

\* Math.exp(-depthDistance * 0.05) in thousandths, depthDistance being
\* |z - depth / 2|, a multiple of 0.5: entry k + 1 is exp(-0.025 * k).
DepthFactorTable ==
    <<1000, 975, 951, 928, 905, 882, 861, 839, 819, 799, 779, 760, 741, 723,
      705, 687, 670, 654, 638, 622, 607, 592, 577, 563, 549, 535, 522, 509,
      497, 484, 472, 461, 449, 438, 427, 417, 407, 397, 387, 377, 368, 359,
      350, 341, 333, 325, 317, 309, 301, 294, 287, 279, 273, 266, 259, 253,
      247, 241, 235, 229, 223, 218, 212, 207, 202>>

DepthFactor(z, depth) == DepthFactorTable[Abs(2 * z - depth) + 1]

\* const tissueValue = medicalGray * depthFactor
TissueValue(medicalGray, z, depth) ==
    (medicalGray * DepthFactor(z, depth)) \div 1000

\* const spacing = [1.0, 1.0, 2.0] and const origin = [0.0, 0.0, 0.0]
Spacing == <<1, 1, 2>>

Origin == <<0, 0, 0>>

\* generateMedicalVolume(imageData)
generateMedicalVolume(image) ==
    LET width == image.width
        height == image.height
        depth == VolumeDepth(width, height)
        voxel(i) ==
            LET c == CellAt(i, width, height)
                imageIndex == ImageIndex(c[1], c[2], width)
            IN TissueValue(MedicalGray(At(image.data, imageIndex),
                                       At(image.data, imageIndex + 1),
                                       At(image.data, imageIndex + 2)),
                           c[3], depth)
    IN [width |-> width, height |-> height, depth |-> depth,
        data |-> [i \in 1..VolumeSize(width, height, depth) |-> voxel(i - 1)],
        spacing |-> Spacing, origin |-> Origin]

\* The volumeIndex values the loops of generateMedicalVolume compute.
VolumeIndices(width, height, depth) ==
    {VolumeIndex(c[1], c[2], c[3], width, height) :
        c \in Cells(width, height, depth)}

\* Math.exp(-(kx*kx + ky*ky + kz*kz) / (2 * sigma * sigma)) in thousandths,
\* by the squared distance 0..3.
GaussianWeight(d2) == <<1000, 607, 368, 223>>[d2 + 1]

\* <<kx, ky, kz>> of the 27 iterations of the kernel loops.
KernelOffset(n) == <<((n - 1) % 3) - 1, (((n - 1) \div 3) % 3) - 1,
                     ((n - 1) \div 9) - 1>>

\* if (nx >= 0 && nx < width && ny >= 0 && ny < height && nz >= 0 && nz < depth)
InBounds(nx, ny, nz, width, height, depth) ==
    /\ nx >= 0 /\ nx < width
    /\ ny >= 0 /\ ny < height
    /\ nz >= 0 /\ nz < depth

\* The neighbours of cell c the kernel loops read, as <<index, weight>>.
Neighbours(c, width, height, depth) ==
    LET at(n) == <<c[1] + KernelOffset(n)[1], c[2] + KernelOffset(n)[2],
                   c[3] + KernelOffset(n)[3]>>
        inside == SelectSeq([n \in 1..27 |-> n],
                            LAMBDA n : InBounds(at(n)[1], at(n)[2], at(n)[3],
                                                width, height, depth))
    IN [k \in 1..Len(inside) |->
           <<VolumeIndex(at(inside[k])[1], at(inside[k])[2], at(inside[k])[3],
                         width, height),
             GaussianWeight(KernelOffset(inside[k])[1] * KernelOffset(inside[k])[1]
                            + KernelOffset(inside[k])[2] * KernelOffset(inside[k])[2]
                            + KernelOffset(inside[k])[3] * KernelOffset(inside[k])[3])>>]

RECURSIVE WeightedSum(_, _)
WeightedSum(data, nbs) ==
    IF nbs = <<>> THEN 0
    ELSE At(data, Head(nbs)[1]) * Head(nbs)[2] + WeightedSum(data, Tail(nbs))

RECURSIVE WeightSum(_)
WeightSum(nbs) ==
    IF nbs = <<>> THEN 0 ELSE Head(nbs)[2] + WeightSum(Tail(nbs))

\* enhanceMedicalImage(volumeData)
enhanceMedicalImage(v) ==
    LET enhanced(i) ==
            LET nbs == Neighbours(CellAt(i, v.width, v.height),
                                  v.width, v.height, v.depth)
                sum == WeightedSum(v.data, nbs)
                weight == WeightSum(nbs)
            IN IF weight > 0 THEN sum \div weight ELSE At(v.data, i)
    IN [v EXCEPT !.data = [i \in 1..Len(v.data) |-> enhanced(i - 1)]]

\* The neighborIndex and currentIndex values enhanceMedicalImage computes.
EnhanceIndices(v) ==
    UNION {{Neighbours(c, v.width, v.height, v.depth)[k][1] :
               k \in 1..Len(Neighbours(c, v.width, v.height, v.depth))}
           \cup {VolumeIndex(c[1], c[2], c[3], v.width, v.height)} :
           c \in Cells(v.width, v.height, v.depth)}

\* Exact arithmetic on naturals beyond the machine word, for the products of
\* calculateOtsuThreshold: a number is its sequence of base-BigBase digits,
\* least significant first.
BigBase == 32768

RECURSIVE ToBig(_)
ToBig(n) == IF n = 0 THEN <<>> ELSE <<n % BigBase>> \o ToBig(n \div BigBase)

RECURSIVE BigAdd(_, _, _)
BigAdd(a, b, carry) ==
    IF a = <<>> /\ b = <<>> THEN ToBig(carry)
    ELSE LET d == (IF a = <<>> THEN 0 ELSE Head(a))
                  + (IF b = <<>> THEN 0 ELSE Head(b)) + carry
         IN <<d % BigBase>>
              \o BigAdd(IF a = <<>> THEN <<>> ELSE Tail(a),
                        IF b = <<>> THEN <<>> ELSE Tail(b), d \div BigBase)

RECURSIVE BigMulDigit(_, _, _)
BigMulDigit(a, m, carry) ==
    IF a = <<>> THEN ToBig(carry)
    ELSE LET d == Head(a) * m + carry
         IN <<d % BigBase>> \o BigMulDigit(Tail(a), m, d \div BigBase)

RECURSIVE BigMul(_, _)
BigMul(a, b) ==
    IF b = <<>> THEN <<>>
    ELSE BigAdd(BigMulDigit(a, Head(b), 0), <<0>> \o BigMul(a, Tail(b)), 0)

RECURSIVE BigTrim(_)
BigTrim(a) ==
    IF a = <<>> THEN <<>>
    ELSE IF a[Len(a)] = 0 THEN BigTrim(SubSeq(a, 1, Len(a) - 1)) ELSE a

BigLess(a, b) ==
    LET x == BigTrim(a)
        y == BigTrim(b)
    IN IF Len(x) # Len(y) THEN Len(x) < Len(y)
       ELSE \E i \in 1..Len(x) : /\ x[i] < y[i]
                                 /\ \A j \in (i + 1)..Len(x) : x[j] = y[j]

\* A between-class variance wB * wF * (mB - mF)^2, kept exact: with
\* mB = sumB / wB and mF = (sum - sumB) / wF it is d * d / (wB * wF) for
\* d = sumB * wF - (sum - sumB) * wB.
Variance(sum, sumB, wB, wF) ==
    [d |-> Abs(sumB * wF - (sum - sumB) * wB), w |-> wB * wF]

NoVariance == [d |-> 0, w |-> 1]

\* varBetween > varMax
VarianceGreaterOrEqual(a, b) ==
    ~BigLess(BigMul(BigMul(ToBig(a.d), ToBig(a.d)), ToBig(b.w)),
             BigMul(BigMul(ToBig(b.d), ToBig(b.d)), ToBig(a.w)))

VarianceGreater(a, b) ==
    BigLess(BigMul(BigMul(ToBig(b.d), ToBig(b.d)), ToBig(a.w)),
            BigMul(BigMul(ToBig(a.d), ToBig(a.d)), ToBig(b.w)))

\* for (let i = 0; i < histogram.length; i++) sum += i * histogram[i],
\* over the levels lo..(hi - 1)
RECURSIVE HistogramSum(_, _, _)
HistogramSum(histogram, lo, hi) ==
    IF hi <= lo THEN 0
    ELSE IF hi = lo + 1 THEN lo * histogram[lo + 1]
    ELSE HistogramSum(histogram, lo, (lo + hi) \div 2)
         + HistogramSum(histogram, (lo + hi) \div 2, hi)

\* The locals of calculateOtsuThreshold when the second loop starts
\* (iterations counts the loop bodies entered, done is the break).
OtsuStartAtOne ==
    [t |-> 0, sumB |-> 0, wB |-> 0, varMax |-> NoVariance, threshold |-> 1,
     iterations |-> 0, done |-> FALSE]

OtsuStart ==
    [t |-> 0, sumB |-> 0, wB |-> 0, varMax |-> NoVariance, threshold |-> 0,
     iterations |-> 0, done |-> FALSE]

\* One body of the second loop, at level st.t.
OtsuStep(histogram, totalPixels, sum, st) ==
    LET wB == st.wB + histogram[st.t + 1]
        wF == totalPixels - wB
        sumB == st.sumB + st.t * histogram[st.t + 1]
        varBetween == Variance(sum, sumB, wB, wF)
    IN IF wB = 0
       THEN [st EXCEPT !.t = @ + 1, !.wB = wB, !.iterations = @ + 1]
       ELSE IF wF = 0
       THEN [st EXCEPT !.wB = wB, !.iterations = @ + 1, !.done = TRUE]
       ELSE IF VarianceGreater(varBetween, st.varMax)
       THEN [st EXCEPT !.t = @ + 1, !.wB = wB, !.sumB = sumB,
                       !.varMax = varBetween, !.threshold = st.t,
                       !.iterations = @ + 1]
       ELSE [st EXCEPT !.t = @ + 1, !.wB = wB, !.sumB = sumB,
                       !.iterations = @ + 1]

\* The second loop up to level limit.
RECURSIVE OtsuRun(_, _, _, _, _)
OtsuRun(histogram, totalPixels, sum, st, limit) ==
    IF st.done \/ st.t >= limit \/ st.t >= Len(histogram) THEN st
    ELSE OtsuRun(histogram, totalPixels, sum,
                 OtsuStep(histogram, totalPixels, sum, st), limit)

\* for (let t = 0; t < histogram.length; t++), sixteen levels at a time
RECURSIVE OtsuLoop(_, _, _, _)
OtsuLoop(histogram, totalPixels, sum, st) ==
    IF st.done \/ st.t >= Len(histogram) THEN st
    ELSE OtsuLoop(histogram, totalPixels, sum,
                  OtsuRun(histogram, totalPixels, sum, st, st.t + 16))

\* calculateOtsuThreshold(histogram, totalPixels), with the number of loop
\* iterations it made.
calculateOtsuThreshold(histogram, totalPixels) ==
    LET st == OtsuLoop(histogram, totalPixels,
                       HistogramSum(histogram, 0, Len(histogram)), OtsuStart)
    IN [threshold |-> st.threshold, iterations |-> st.iterations]

\* Math.floor(Math.min(255, Math.max(0, data[i])))
Intensity(value) == Min2(255 * Scale, Max2(0, value)) \div Scale

\* new Array(256).fill(0), then histogram[intensity]++ for every voxel
HistogramBinsWide == 256 + 1

HistogramBins == 256

BuildHistogram(data) ==
    [l \in 1..HistogramBins |->
        Cardinality({i \in 1..Len(data) : Intensity(data[i]) = l - 1})]

\* The if / else-if chain of segmentAnatomicalStructures: data[i] against
\* threshold * 0.3, threshold * 0.7 and threshold.
ClassifyFlat(value, threshold) ==
    IF value < threshold * Scale THEN 170 * Scale ELSE 255 * Scale

Classify(value, threshold) ==
    IF value * 10 < threshold * 3 * Scale THEN 0
    ELSE IF value * 10 < threshold * 7 * Scale THEN 85 * Scale
    ELSE IF value < threshold * Scale THEN 170 * Scale
    ELSE 255 * Scale

\* segmentAnatomicalStructures(volumeData)
segmentAnatomicalStructures(v) ==
    LET histogram == BuildHistogram(v.data)
        threshold == calculateOtsuThreshold(histogram, Len(v.data)).threshold
    IN [v EXCEPT !.data = [i \in 1..Len(v.data) |->
                              Classify(v.data[i], threshold)]]

\* The call of calculateOtsuThreshold segmentAnatomicalStructures makes.
SegmentOtsu(v) ==
    LET histogram == BuildHistogram(v.data)
        r == calculateOtsuThreshold(histogram, Len(v.data))
    IN [histogram |-> histogram, totalPixels |-> Len(v.data),
        threshold |-> r.threshold, iterations |-> r.iterations]

\* const isoValue = 128
IsoValue == 128 * Scale

\* getCubeValues: the 8 corners of the unit cell at <<x, y, z>>, dx fastest;
\* data[index] || 0
getCubeValues(data, x, y, z, width, height) ==
    [n \in 1..8 |->
        At(data, (z + ((n - 1) \div 4)) * width * height
                 + (y + (((n - 1) \div 2) % 2)) * width + (x + ((n - 1) % 2)))]

\* shouldGenerateTriangles(cubeValues, isoValue)
shouldGenerateTriangles(cubeValues, isoValue) ==
    LET aboveThreshold ==
            Cardinality({n \in 1..Len(cubeValues) : cubeValues[n] > isoValue})
    IN aboveThreshold > 0 /\ aboveThreshold < Len(cubeValues)

\* generateCubeTriangles(x, y, z, cubeValues, isoValue)
generateCubeTriangles(x, y, z, cubeValues, isoValue) ==
    IF cubeValues[1] > isoValue /\ cubeValues[8] <= isoValue
    THEN <<x, y, z, x + 1, y, z, x, y + 1, z>>
    ELSE <<>>

\* The body of the cell loops of generateAnatomicalMesh: the triangle
\* coordinates the cell at <<x, y, z>> adds.
CellTrianglesAlways(data, x, y, z, width, height) ==
    <<x, y, z, x + 1, y, z, x, y + 1, z>>

CellTriangles(data, x, y, z, width, height) ==
    LET cubeValues == getCubeValues(data, x, y, z, width, height) IN
    IF shouldGenerateTriangles(cubeValues, IsoValue)
    THEN generateCubeTriangles(x, y, z, cubeValues, IsoValue)
    ELSE <<>>

\* Math.sqrt on a perfect square (the cross products of the triangles
\* generateCubeTriangles builds have length 1).
ISqrt(n) == CHOOSE k \in 0..n : k * k <= n /\ (k + 1) * (k + 1) > n

\* calculateTriangleNormal(x1, y1, z1, x2, y2, z2, x3, y3, z3)
calculateTriangleNormal(x1, y1, z1, x2, y2, z2, x3, y3, z3) ==
    LET v1x == x2 - x1
        v1y == y2 - y1
        v1z == z2 - z1
        v2x == x3 - x1
        v2y == y3 - y1
        v2z == z3 - z1
        nx == v1y * v2z - v1z * v2y
        ny == v1z * v2x - v1x * v2z
        nz == v1x * v2y - v1y * v2x
        length == ISqrt(nx * nx + ny * ny + nz * nz)
    IN <<IF length > 0 THEN nx \div length ELSE 0,
         IF length > 0 THEN ny \div length ELSE 0,
         IF length > 0 THEN nz \div length ELSE 0>>

\* faces.push(vertexIndex, vertexIndex + 1, vertexIndex + 2)
FaceIndicesShared(vertexIndex) == <<0, 1, 2>>

FaceIndices(vertexIndex) == <<vertexIndex, vertexIndex + 1, vertexIndex + 2>>

\* for (let i = 0; i < cubeVertices.length; i += 9): the triangles of one
\* cell, each <<cell, its nine coordinates>>.
CellFaces(v, c) ==
    LET cubeVertices == CellTriangles(v.data, c[1], c[2], c[3], v.width, v.height)
    IN [k \in 1..((Len(cubeVertices) + 8) \div 9) |->
           <<c, [i \in 1..9 |-> At(cubeVertices, 9 * (k - 1) + i - 1)]>>]

\* The number of unit cells the loops visit.
CellCount(v) ==
    IF v.width < 2 \/ v.height < 2 \/ v.depth < 2 THEN 0
    ELSE (v.width - 1) * (v.height - 1) * (v.depth - 1)

\* The triangles of cells number lo..(hi - 1) in loop order (x fastest,
\* then y, then z).
RECURSIVE MeshTriangles(_, _, _)
MeshTriangles(v, lo, hi) ==
    IF hi <= lo THEN <<>>
    ELSE IF hi = lo + 1 THEN CellFaces(v, CellAt(lo, v.width - 1, v.height - 1))
    ELSE MeshTriangles(v, lo, (lo + hi) \div 2)
         \o MeshTriangles(v, (lo + hi) \div 2, hi)

TriangleNormal(t) ==
    calculateTriangleNormal(t[1], t[2], t[3], t[4], t[5], t[6], t[7], t[8], t[9])

\* generateAnatomicalMesh(volumeData): what the pushes leave in vertices,
\* faces and normals; vertexIndex is 0 at the first triangle and grows by 3.
MeshOf(v) ==
    LET tris == MeshTriangles(v, 0, CellCount(v))
    IN [vertices |-> [i \in 1..(9 * Len(tris)) |->
                         tris[((i - 1) \div 9) + 1][2][((i - 1) % 9) + 1]],
        faces |-> [i \in 1..(3 * Len(tris)) |->
                      FaceIndices(3 * ((i - 1) \div 3))[((i - 1) % 3) + 1]],
        normals |-> [i \in 1..(9 * Len(tris)) |->
                        TriangleNormal(tris[((i - 1) \div 9) + 1][2])[((i - 1) % 3) + 1]],
        cells |-> [k \in 1..Len(tris) |-> tris[k][1]]]

generateAnatomicalMesh(v) ==
    [vertices |-> MeshOf(v).vertices, faces |-> MeshOf(v).faces,
     normals |-> MeshOf(v).normals]

\* new Float32Array(n): a buffer that no reference points at yet.
NewBuffer(h) == Len(h) + 1

\* The heap after the loops of a stage have filled buffer id with data.
Store(h, id, data) ==
    IF id > Len(h) THEN Append(h, data) ELSE [h EXCEPT ![id] = data]

\* const enhancedData = new Float32Array(data.length): the buffer
\* enhanceMedicalImage writes and returns, input being the buffer it reads.
EnhanceOutputInPlace(h, input) == input

EnhanceOutput(h, input) == NewBuffer(h)

\* const segmentedData = new Float32Array(data.length)
SegmentOutput(h, input) == NewBuffer(h)

\* The box of the single vertex starting at index 3 * k of vertices.
VertexBox(vertices, k) ==
    [min |-> [x |-> At(vertices, 3 * k), y |-> At(vertices, 3 * k + 1),
              z |-> At(vertices, 3 * k + 2)],
     max |-> [x |-> At(vertices, 3 * k), y |-> At(vertices, 3 * k + 1),
              z |-> At(vertices, 3 * k + 2)]]

\* Math.min / Math.max of two boxes, axis by axis.
BoxJoin(a, b) ==
    [min |-> [x |-> Min2(a.min.x, b.min.x), y |-> Min2(a.min.y, b.min.y),
              z |-> Min2(a.min.z, b.min.z)],
     max |-> [x |-> Max2(a.max.x, b.max.x), y |-> Max2(a.max.y, b.max.y),
              z |-> Max2(a.max.z, b.max.z)]]

\* minX .. maxZ after the loop of calculateBoundingBox has passed vertices
\* number lo..(hi - 1) (lo < hi).
RECURSIVE BoxRange(_, _, _)
BoxRange(vertices, lo, hi) ==
    IF hi <= lo + 1 THEN VertexBox(vertices, lo)
    ELSE BoxJoin(BoxRange(vertices, lo, (lo + hi) \div 2),
                 BoxRange(vertices, (lo + hi) \div 2, hi))

\* calculateBoundingBox(vertices), vertices.length a multiple of 3
calculateBoundingBoxFromOrigin(vertices) ==
    IF Len(vertices) = 0 THEN NoBox
    ELSE BoxJoin(NoBox, BoxRange(vertices, 0, (Len(vertices) + 2) \div 3))

calculateBoundingBox(vertices) ==
    IF Len(vertices) = 0
    THEN [min |-> [x |-> 0, y |-> 0, z |-> 0], max |-> [x |-> 0, y |-> 0, z |-> 0]]
    ELSE BoxRange(vertices, 0, (Len(vertices) + 2) \div 3)

\* ------------------------------------------------------------ SpecVolume
\* The stage functions of the client converter run on decoded images, and
\* each of them on inputs of its own.
Black == <<0, 0, 0, 255>>

Grey == <<100, 150, 200, 255>>

White == <<255, 255, 255, 255>>

Patterns == {"black", "grey", "white", "checker", "cornerBright",
             "cornerDark", "leftBright"}

\* The RGBA bytes of pixel <<x, y>> in each pattern.
PatternPixel(pattern, x, y) ==
    CASE pattern = "black" -> Black
      [] pattern = "grey" -> Grey
      [] pattern = "white" -> White
      [] pattern = "checker" -> IF (x + y) % 2 = 0 THEN White ELSE Grey
      [] pattern = "cornerBright" -> IF x = 0 /\ y = 0 THEN White ELSE Grey
      [] pattern = "cornerDark" -> IF x = 0 /\ y = 0 THEN Black ELSE White
      [] pattern = "leftBright" -> IF x = 0 THEN White ELSE Black

ImageOf(width, height, pattern) ==
    [width |-> width, height |-> height,
     data |-> [i \in 1..(4 * width * height) |->
                  PatternPixel(pattern, ((i - 1) \div 4) % width,
                               ((i - 1) \div 4) \div width)[((i - 1) % 4) + 1]]]

Images == {ImageOf(w, h, p) : w \in 0..MaxSide, h \in 0..MaxSide, p \in Patterns}

ZeroSized(image) == image.width = 0 \/ image.height = 0

\* Image sizes whose depth is computed without building the volume.
DimSet == {0, 1, 2, 319, 320, 321, 639, 640, 660, 1279, 1280, 1281, 5000}

\* Histograms handed to calculateOtsuThreshold directly: up to MaxCount
\* pixels at each of a few levels.
OtsuLevels == {0, 1, 2, 128, 254, 255}

HistogramOf(counts) ==
    [l \in 1..HistogramBins |->
        IF (l - 1) \in OtsuLevels THEN counts[l - 1] ELSE 0]

Histograms == {HistogramOf(c) : c \in [OtsuLevels -> 0..MaxCount]}

\* Volumes handed to segmentAnatomicalStructures directly: 2 x 2 x 2 voxels,
\* uniform, or a lower layer of two values under a uniform upper layer, or
\* graded.
UniformValues == {0, 50 * Scale, 12850, 255 * Scale, 300 * Scale}

LayerValues == {0, 60 * Scale, 200 * Scale}

SmallVolume(data) ==
    [width |-> 2, height |-> 2, depth |-> 2, data |-> data,
     spacing |-> <<3, 3, 5>>, origin |-> <<7, 8, 9>>]

\* Volumes with voxels in every band below a bright class: 2 x 2 x 2 with
\* the dark voxels first or last, and 3 x 2 x 2 (two unit cells).
GradedValues == <<20, 50, 80, 100, 255, 255, 255, 255>>

TwoCellValues == <<255, 255, 255, 255, 255, 255, 100, 100, 100, 80, 50, 20>>

GradedVolumes ==
    {SmallVolume([i \in 1..8 |-> GradedValues[i] * Scale]),
     SmallVolume([i \in 1..8 |-> GradedValues[9 - i] * Scale]),
     [width |-> 3, height |-> 2, depth |-> 2,
      data |-> [i \in 1..12 |-> TwoCellValues[i] * Scale],
      spacing |-> <<3, 3, 5>>, origin |-> <<7, 8, 9>>]}

TestVolumes ==
    {SmallVolume([i \in 1..8 |-> u]) : u \in UniformValues}
    \cup {SmallVolume([i \in 1..8 |-> IF i <= 4 THEN low[i] ELSE top]) :
             low \in [1..4 -> {30 * Scale, 220 * Scale}], top \in LayerValues}
    \cup GradedVolumes

\* Vertex lists handed to calculateBoundingBox directly: up to MaxVertices
\* vertices out of a few points.
Points == {<<0, 0, 0>>, <<-1, 2, 0>>, <<2, -1, 3>>, <<1, 1, -2>>}

RECURSIVE Flatten(_)
Flatten(ps) == IF ps = <<>> THEN <<>> ELSE Head(ps) \o Flatten(Tail(ps))

VertexLists ==
    {Flatten(ps) : ps \in UNION {[1..n -> Points] : n \in 0..MaxVertices}}

\* The pixels a histogram counts, over the levels lo..(hi - 1).
RECURSIVE HistogramTotal(_, _, _)
HistogramTotal(histogram, lo, hi) ==
    IF hi <= lo THEN 0
    ELSE IF hi = lo + 1 THEN histogram[lo + 1]
    ELSE HistogramTotal(histogram, lo, (lo + hi) \div 2)
         + HistogramTotal(histogram, (lo + hi) \div 2, hi)

\* loadMedicalImage resolves: img.onload drew the image and getImageData
\* returned its pixels.
LoadImage(img) ==
    /\ stagePc = "idle"
    /\ stagePc' = "loaded"
    /\ imageData' = img
    /\ UNCHANGED <<boundingBox, heap, refs, volumeData, enhancedVolume, segmentedData, mesh, emitted,
                   touched, otsu, dims, convVars, routeVars, clientVars,
                   exportVars>>

\* loadMedicalImage rejects: getImageData returned nothing ('Failed to
\* extract medical image data').
LoadRejects(img) ==
    /\ stagePc = "idle"
    /\ stagePc' = "rejected"
    /\ imageData' = img
    /\ UNCHANGED <<boundingBox, heap, refs, volumeData, enhancedVolume, segmentedData, mesh, emitted,
                   touched, otsu, dims, convVars, routeVars, clientVars,
                   exportVars>>

\* getImageData throws on a zero-sized rectangle: the exception leaves the
\* img.onload handler and the promise of loadMedicalImage never settles.
LoadThrows(img) ==
    /\ stagePc = "idle"
    /\ ZeroSized(img)
    /\ stagePc' = "hung"
    /\ imageData' = img
    /\ UNCHANGED <<boundingBox, heap, refs, volumeData, enhancedVolume, segmentedData, mesh, emitted,
                   touched, otsu, dims, convVars, routeVars, clientVars,
                   exportVars>>

GenerateVolume ==
    /\ stagePc = "loaded"
    /\ stagePc' = "volume"
    /\ volumeData' = generateMedicalVolume(imageData)
    /\ touched' = VolumeIndices(imageData.width, imageData.height,
                                VolumeDepth(imageData.width, imageData.height))
    /\ heap' = Store(heap, NewBuffer(heap), generateMedicalVolume(imageData).data)
    /\ refs' = [refs EXCEPT !.volume = NewBuffer(heap)]
    /\ UNCHANGED <<boundingBox, imageData, enhancedVolume, segmentedData, mesh, emitted,
                   otsu, dims, convVars, routeVars, clientVars, exportVars>>

Enhance ==
    /\ stagePc = "volume"
    /\ stagePc' = "enhanced"
    /\ enhancedVolume' = enhanceMedicalImage(volumeData)
    /\ touched' = EnhanceIndices(volumeData)
    /\ heap' = Store(heap, EnhanceOutput(heap, refs.volume),
                     enhanceMedicalImage(volumeData).data)
    /\ refs' = [refs EXCEPT !.enhanced = EnhanceOutput(heap, refs.volume)]
    /\ UNCHANGED <<boundingBox, imageData, volumeData, segmentedData, mesh, emitted, otsu,
                   dims, convVars, routeVars, clientVars, exportVars>>

SegmentStage ==
    /\ stagePc = "enhanced"
    /\ stagePc' = "segmented"
    /\ segmentedData' = segmentAnatomicalStructures(enhancedVolume)
    /\ otsu' = SegmentOtsu(enhancedVolume)
    /\ touched' = {i - 1 : i \in 1..Len(enhancedVolume.data)}
    /\ heap' = Store(heap, SegmentOutput(heap, refs.enhanced),
                     segmentAnatomicalStructures(enhancedVolume).data)
    /\ refs' = [refs EXCEPT !.segmented = SegmentOutput(heap, refs.enhanced)]
    /\ UNCHANGED <<boundingBox, imageData, volumeData, enhancedVolume, mesh, emitted, dims,
                   convVars, routeVars, clientVars, exportVars>>

\* segmentAnatomicalStructures on a volume of the caller's choice.
DirectSegment(v) ==
    /\ stagePc = "idle"
    /\ stagePc' = "segmented"
    /\ enhancedVolume' = v
    /\ segmentedData' = segmentAnatomicalStructures(v)
    /\ otsu' = SegmentOtsu(v)
    /\ touched' = {i - 1 : i \in 1..Len(v.data)}
    /\ heap' = Store(<<v.data>>, SegmentOutput(<<v.data>>, 1),
                     segmentAnatomicalStructures(v).data)
    /\ refs' = [volume |-> 0, enhanced |-> 1,
                segmented |-> SegmentOutput(<<v.data>>, 1)]
    /\ UNCHANGED <<boundingBox, imageData, volumeData, mesh, emitted, dims, convVars,
                   routeVars, clientVars, exportVars>>

GenerateMesh ==
    /\ stagePc = "segmented"
    /\ stagePc' = "meshed"
    /\ mesh' = generateAnatomicalMesh(segmentedData)
    /\ emitted' = MeshOf(segmentedData).cells
    /\ boundingBox' = calculateBoundingBox(MeshOf(segmentedData).vertices)
    /\ touched' = {}
    /\ UNCHANGED <<heap, refs, imageData, volumeData, enhancedVolume, segmentedData, otsu,
                   dims, convVars, routeVars, clientVars, exportVars>>

\* calculateBoundingBox on a vertex list of the caller's choice.
DirectBox(vs) ==
    /\ stagePc = "idle"
    /\ stagePc' = "boxed"
    /\ mesh' = [NoMesh EXCEPT !.vertices = vs]
    /\ boundingBox' = calculateBoundingBox(vs)
    /\ UNCHANGED <<heap, refs, imageData, volumeData, enhancedVolume,
                   segmentedData, emitted, touched, otsu, dims, convVars,
                   routeVars, clientVars, exportVars>>

\* calculateOtsuThreshold on a histogram of the caller's choice.
DirectOtsu(h) ==
    /\ stagePc = "idle"
    /\ stagePc' = "thresholded"
    /\ LET totalPixels == HistogramTotal(h, 0, Len(h))
           r == calculateOtsuThreshold(h, totalPixels)
       IN otsu' = [histogram |-> h, totalPixels |-> totalPixels,
                   threshold |-> r.threshold, iterations |-> r.iterations]
    /\ UNCHANGED <<boundingBox, heap, refs, imageData, volumeData, enhancedVolume, segmentedData, mesh,
                   emitted, touched, dims, convVars, routeVars, clientVars,
                   exportVars>>

\* The first statements of generateMedicalVolume on an image of the given
\* size: the depth it chooses.
MeasureImage(width, height) ==
    /\ stagePc = "idle"
    /\ stagePc' = "sized"
    /\ dims' = [width |-> width, height |-> height,
                depth |-> VolumeDepth(width, height)]
    /\ UNCHANGED <<boundingBox, heap, refs, imageData, volumeData, enhancedVolume, segmentedData, mesh,
                   emitted, touched, otsu, convVars, routeVars, clientVars,
                   exportVars>>

NextVolume ==
    \/ \E img \in Images : LoadImage(img) \/ LoadRejects(img) \/ LoadThrows(img)
    \/ GenerateVolume
    \/ Enhance
    \/ SegmentStage
    \/ \E v \in TestVolumes : DirectSegment(v)
    \/ GenerateMesh
    \/ \E h \in Histograms : DirectOtsu(h)
    \/ \E w \in DimSet, h \in DimSet : MeasureImage(w, h)
    \/ \E vs \in VertexLists : DirectBox(vs)

SpecVolume == InitIdle /\ [][NextVolume]_vars

\* ------------------------------------------------------------ SpecDetect
\* POST /api/scans/:id/detect: getMriScan found the scan (scans are never
\* deleted), simulateAnomalyDetection returned, and
\* updateMriScan({detections, processingStatus: "completed"}) reaches the
\* database.
DetectUpdate(s) ==
    /\ scans[s].exists
    /\ scans' = [scans EXCEPT ![s].processingStatus = "completed"]
    /\ UNCHANGED <<rpc, resp, seen, ppc, pargs, pendingProcessing, convVars,
                   clientVars, exportVars, volumeVars>>

NextDetect ==
    \/ Next
    \/ \E s \in ScanIds : DetectUpdate(s)

SpecDetect == Init /\ [][NextDetect]_vars

\* -------------------------------------------------------------- SpecTwin
\* Two calls of convertMedicalImageTo3D on the same image path and options:
\* call TwinA, for a scan whose caller registered a listener (and may
\* unregister it while the call runs), call TwinB, for a scan of its own
\* that nobody listens to.
TwinId == "s2"

TwinScans == ScanIds \cup {TwinId}

TwinA == 1

TwinB == 0

InitTwin ==
    /\ progressCallbacks = [s \in TwinScans |-> NoCb]
    /\ files = <<>>
    /\ cpc = [r \in Ids |-> "idle"]
    /\ cargs = [r \in Ids |-> NoArgs]
    /\ tempFileToCleanup = [r \in Ids |-> NoPath]
    /\ finalPath = [r \in Ids |-> NoPath]
    /\ calls = [r \in Ids |-> <<>>]
    /\ work = [r \in Ids |-> <<>>]
    /\ created = [r \in Ids |-> {}]
    /\ exportInput = [r \in Ids |-> NoPath]
    /\ scans = [s \in TwinScans |-> NoScan]
    /\ rpc = [q \in Ids |-> "idle"]
    /\ resp = [q \in Ids |-> 0]
    /\ seen = [q \in Ids |-> [scanId |-> "none", status |-> "none"]]
    /\ ppc = [r \in Ids |-> "none"]
    /\ pargs = [r \in Ids |-> [scanId |-> "none", imagePath |-> NoArgs.imagePath]]
    /\ pendingProcessing = [s \in TwinScans |-> 0]
    /\ clientPc = [j \in Ids |-> "idle"]
    /\ clientCb = [j \in Ids |-> FALSE]
    /\ clientLog = [j \in Ids |-> <<>>]
    /\ now = 0
    /\ serialized = <<>>
    /\ stagePc = "idle"
    /\ imageData = NoImage
    /\ volumeData = NoVolume
    /\ enhancedVolume = NoVolume
    /\ segmentedData = NoVolume
    /\ mesh = NoMesh
    /\ emitted = <<>>
    /\ touched = {}
    /\ otsu = NoOtsu
    /\ dims = NoDims
    /\ boundingBox = NoBox
    /\ heap = <<>>
    /\ refs = NoRefs

\* registerProgressCallback(a.scanId, cb), then convertMedicalImageTo3D.
TwinListenedCall(a) ==
    LET reg == registerProgressCallback(progressCallbacks, a.scanId,
                                        CallerCb(TwinA))
    IN
    /\ progressCallbacks' = reg
    /\ ConvertBegin(TwinA, reg, a)
    /\ UNCHANGED <<scans, rpc, resp, seen, ppc, pargs, clientVars, exportVars,
                   volumeVars>>

\* convertMedicalImageTo3D with the same image path and options, no listener.
TwinUnlistenedCall ==
    /\ cpc[TwinA] # "idle"
    /\ ConvertBegin(TwinB, progressCallbacks,
                    [cargs[TwinA] EXCEPT !.scanId = TwinId])
    /\ UNCHANGED <<progressCallbacks, scans, rpc, resp, seen, ppc, pargs,
                   clientVars, exportVars, volumeVars>>

TwinStep(r) ==
    /\ ConvertStep(r)
    /\ UNCHANGED <<scans, rpc, resp, seen, ppc, pargs, clientVars, exportVars,
                   volumeVars>>

\* The caller of the listened call unregisters its listener mid-run.
TwinUnregister ==
    /\ cpc[TwinA] \notin {"idle", "resolved", "rejected"}
    /\ progressCallbacks[cargs[TwinA].scanId] # NoCb
    /\ progressCallbacks' =
           unregisterProgressCallback(progressCallbacks, cargs[TwinA].scanId)
    /\ UNCHANGED <<files, cpc, cargs, tempFileToCleanup, finalPath, calls, work,
                   created, exportInput, routeVars, clientVars, exportVars,
                   volumeVars>>

NextTwin ==
    \/ \E a \in ArgSet : TwinListenedCall(a)
    \/ TwinUnlistenedCall
    \/ \E r \in {TwinA, TwinB} : TwinStep(r)
    \/ TwinUnregister

SpecTwin == InitTwin /\ [][NextTwin]_vars

\* ================================================================ claims
StagesOf(log) == [i \in 1..Len(log) |-> log[i][1]]

ProgressOf(log) == [i \in 1..Len(log) |-> log[i][2]]

NonDecreasing(seq) == \A i \in 1..(Len(seq) - 1) : seq[i] <= seq[i + 1]

IsPrefix(a, b) == Len(a) <= Len(b) /\ \A i \in 1..Len(a) : a[i] = b[i]

Occurs(x, seq) == \E i \in 1..Len(seq) : seq[i] = x

Finished(r) == cpc[r] \in {"resolved", "rejected"}

\* The listener of call r was registered when the call started and still
\* when it made its last notification.
Listened(r) ==
    /\ calls[r] # <<>>
    /\ calls[r][1][3] # NoCb
    /\ calls[r][Len(calls[r])][3] # NoCb

\* C1: in every conversion that does not fail, on the server and in the
\* client, the progress values a listener receives are integers in 0..100
\* in non-decreasing order, and a listener that was registered before the
\* run receives <<completed, 100>> last.
C1_MonotonicProgress ==
    /\ \A r \in Ids : cpc[r] = "resolved" =>
          LET d == Delivered(r) IN
          /\ NonDecreasing(ProgressOf(d))
          /\ \A i \in 1..Len(d) : d[i][2] \in 0..100
          /\ Listened(r) =>
                /\ d[Len(d)][1] = "completed"
                /\ d[Len(d)][2] = 100
    /\ \A j \in Ids : (clientPc[j] = "resolved" /\ clientCb[j]) =>
          LET d == clientLog[j] IN
          /\ NonDecreasing(ProgressOf(d))
          /\ \A i \in 1..Len(d) : d[i][2] \in 0..100
          /\ d # <<>>
          /\ d[Len(d)] = <<"completed", 100>>

C1_Witness ==
    \E r \in Ids : /\ cpc[r] = "resolved"
                   /\ Listened(r)
                   /\ Occurs("download", StagesOf(Delivered(r)))
                   /\ Len(Delivered(r)) = 12

\* The fixed order of the stage notifications for an image path.
ExpectedOrder(imagePath) ==
    <<"initialization", "validation">>
        \o (IF StartsWithObjects(imagePath) THEN <<"download">> ELSE <<>>)
        \o <<"metadata", "preprocessing", "volumeGeneration", "filtering",
             "segmentation", "meshGeneration", "postProcessing", "export",
             "completed">>

\* Every stage function is entered only when the one entered before it has
\* returned, and is left (by return or throw) only after it was entered.
WorkSequential(w) ==
    \A i \in 1..Len(w) :
        IF w[i][1] = "begin"
        THEN i = 1 \/ w[i - 1][1] = "end"
        ELSE i > 1 /\ w[i - 1] = <<"begin", w[i][2]>>

\* C2: the stage notifications of a call are a prefix of the fixed order
\* (with download exactly for a path under /objects/), optionally followed
\* by one 'error'; and a stage's work begins only after the preceding
\* stage's work has returned.
C2_StageOrder ==
    \A r \in Ids : cpc[r] # "idle" =>
        LET st == StagesOf(calls[r])
            e == ExpectedOrder(cargs[r].imagePath)
        IN
        /\ \/ IsPrefix(st, e)
           \/ /\ st # <<>>
              /\ st[Len(st)] = "error"
              /\ IsPrefix(SubSeq(st, 1, Len(st) - 1), e)
        /\ Occurs("download", st) => StartsWithObjects(cargs[r].imagePath)
        /\ (Occurs("metadata", st) /\ StartsWithObjects(cargs[r].imagePath))
              => Occurs("download", st)
        /\ WorkSequential(work[r])

C2_Witness ==
    \E r \in Ids : /\ cpc[r] = "rejected"
                   /\ StartsWithObjects(cargs[r].imagePath)
                   /\ Occurs("segmentation", StagesOf(calls[r]))
                   /\ calls[r][Len(calls[r])][1] = "error"

\* C3: when a call has rejected, none of the intermediate files it created
\* exists any more.
C3_NoIntermediateLeftOnFailure ==
    \A r \in Ids : cpc[r] = "rejected" =>
        \A f \in created[r] \cap TempFiles(cargs[r].scanId) : ~Exists(files, f)

IsTerminal(n) == n[1] = "completed" \/ n[1] = "error"

C5_ClientFailureNotified ==
    \A j \in Ids : (clientPc[j] = "rejected" /\ clientCb[j]) =>
        /\ clientLog[j] # <<>>
        /\ clientLog[j][Len(clientLog[j])][1] \in {"completed", "error", "failed"}

\* C6: a convert request that finds the scan processing or completed is
\* answered 400 in that step, which changes neither the scan records nor
\* the scheduled runs; and a request answered 400 never has a run.
C6_DuplicateRejected ==
    /\ [](\A q \in ConvertReqs : resp[q] = 400 => ppc[q] = "none")
    /\ [][\A q \in ConvertReqs, s \in ScanIds :
            (/\ rpc[q] = "idle"
             /\ rpc'[q] # "idle"
             /\ seen'[q].scanId = s
             /\ scans[s].processingStatus \in {"processing", "completed"})
            => /\ resp'[q] = 400
               /\ rpc'[q] = "done"
               /\ scans' = scans
               /\ ppc' = ppc
               /\ pargs' = pargs]_vars

C6_Witness ==
    \E q \in ConvertReqs : resp[q] = 400 /\ seen[q].status = "completed"

\* C7: at most one conversion run is ever started for a scan id.
C7_AtMostOneRunPerScan ==
    \A s \in ScanIds :
        Cardinality({r \in Runs : /\ ppc[r] \notin {"none", "timer"}
                                  /\ pargs[r].scanId = s}) <= 1

\* C8: with meshOptimization false the call creates no _optimized.tmp,
\* never waits in optimizeMedicalMesh and hands the mesh path to export;
\* _optimized.tmp is written, and handed to export, only with
\* meshOptimization true; the mesh file keeps what generateAnatomicalMesh
\* wrote.
C8_OptimizationOptional ==
    \A r \in Ids : cpc[r] # "idle" =>
        LET sid == cargs[r].scanId
            meshPath == TmpFile(sid, "_mesh.tmp")
            optimizedPath == TmpFile(sid, "_optimized.tmp")
        IN
        /\ ~cargs[r].options.meshOptimization =>
              /\ optimizedPath \notin created[r]
              /\ cpc[r] # "postProcessing"
              /\ exportInput[r] # NoPath => exportInput[r] = meshPath
        /\ cargs[r].options.meshOptimization =>
              /\ exportInput[r] # NoPath =>
                    /\ exportInput[r] = optimizedPath
                    /\ optimizedPath \in created[r]
        /\ Exists(files, meshPath) => files[meshPath] = "mesh_generated"

C8_Witness ==
    \E r \in Ids : /\ ~cargs[r].options.meshOptimization
                   /\ cpc[r] = "export"
                   /\ exportInput[r] = TmpFile(cargs[r].scanId, "_mesh.tmp")

\* C9: a call that notified 'completed' or resolved has written one export
\* file for every requested format; a call whose export write failed is
\* rejected and never notified 'completed'.
C9_AllFormatsOrFailure ==
    \A r \in Ids : cpc[r] # "idle" =>
        LET sid == cargs[r].scanId
            fmts == cargs[r].options.outputFormats
            st == StagesOf(calls[r])
        IN
        /\ (cpc[r] = "resolved" \/ Occurs("completed", st)) =>
              /\ cpc[r] = "resolved"
              /\ \A i \in 1..Len(fmts) :
                    /\ ExportFile(sid, fmts[i]) \in created[r]
                    /\ Exists(files, ExportFile(sid, fmts[i]))
                    /\ files[ExportFile(sid, fmts[i])] = fmts[i]
        /\ Occurs(Throw("exportMedicalModel"), work[r]) =>
              /\ cpc[r] = "rejected"
              /\ ~Occurs("completed", st)
              /\ st[Len(st)] = "error"

C9_Witness ==
    \E r \in Ids : /\ cpc[r] = "resolved"
                   /\ cargs[r].options.outputFormats = <<"stl", "ply">>

\* C10: two serializations of the same model for the same scan id in the
\* same format have the same text.
C10_IdempotentExport ==
    \A i, j \in 1..Len(serialized) :
        (/\ serialized[i].side = serialized[j].side
         /\ serialized[i].format = serialized[j].format
         /\ serialized[i].scanId = serialized[j].scanId
         /\ serialized[i].mesh = serialized[j].mesh)
        => serialized[i].text = serialized[j].text

\* A volume whose buffer has one element for each voxel of its dimensions.
Shaped(v) == Len(v.data) = v.width * v.height * v.depth

\* The volume the stage just run returned.
StageVolume ==
    CASE stagePc = "volume" -> volumeData
      [] stagePc = "enhanced" -> enhancedVolume
      [] stagePc = "segmented" -> segmentedData
      [] OTHER -> NoVolume

\* C11: the volume returned by generateMedicalVolume, enhanceMedicalImage and
\* segmentAnatomicalStructures has width * height * depth elements, and every
\* index the stage computed from in-range coordinates lies in
\* 0..data.length - 1.
C11_VolumeShape ==
    stagePc \in {"volume", "enhanced", "segmented"} =>
        /\ Shaped(StageVolume)
        /\ \A i \in touched : i >= 0 /\ i < Len(StageVolume.data)
        /\ \A c \in Cells(StageVolume.width, StageVolume.height, StageVolume.depth) :
              VolumeIndex(c[1], c[2], c[3], StageVolume.width, StageVolume.height)
                  \in 0..(Len(StageVolume.data) - 1)

C11_Witness ==
    /\ stagePc = "segmented"
    /\ Shaped(volumeData) /\ Shaped(enhancedVolume) /\ Shaped(segmentedData)
    /\ volumeData.width = 2 /\ volumeData.height = 2
    /\ Len(segmentedData.data) = 2 * 2 * 32
    /\ Cardinality(touched) = Len(segmentedData.data)

\* An image was handed to loadMedicalImage.
ImageHandled ==
    stagePc \in {"loaded", "rejected", "hung"} \/ volumeData # NoVolume

\* C12: an image of width 0 or height 0 is rejected before any volume buffer
\* is allocated: generateMedicalVolume returns no volume for it and no later
\* stage runs on it.
C12_ZeroSizedRejected ==
    (ImageHandled /\ ZeroSized(imageData)) =>
        /\ stagePc = "rejected"
        /\ volumeData = NoVolume
        /\ enhancedVolume = NoVolume
        /\ segmentedData = NoVolume

\* calculateOtsuThreshold has returned (called directly or by
\* segmentAnatomicalStructures).
OtsuReturned == stagePc \in {"thresholded", "segmented"}

\* C13: on a 256-bin histogram of non-negative counts whose sum is
\* totalPixels, the all-zero histogram included, calculateOtsuThreshold
\* returns after at most 256 iterations of its loop with an integer in
\* 0..255.
C13_OtsuTerminatesInRange ==
    OtsuReturned =>
        /\ otsu.totalPixels = HistogramTotal(otsu.histogram, 0, Len(otsu.histogram))
        /\ otsu.iterations \in 0..256
        /\ otsu.threshold \in 0..255

C13_Witness ==
    /\ stagePc = "thresholded"
    /\ otsu.totalPixels = 0
    /\ \A l \in 1..Len(otsu.histogram) : otsu.histogram[l] = 0
    /\ otsu.iterations = 256
    /\ otsu.threshold = 0

\* C17: the depth generateMedicalVolume chooses,
\* max(32, min(64, floor((width + height) / 20))), lies in 32..64, so the
\* volume has at most 64 * width * height voxels.
C17_DepthClamped ==
    /\ stagePc = "sized" =>
          /\ dims.depth \in 32..64
          /\ dims.depth = (IF dims.width + dims.height < 640 THEN 32
                           ELSE IF dims.width + dims.height >= 1280 THEN 64
                           ELSE (dims.width + dims.height) \div 20)
          /\ VolumeSize(dims.width, dims.height, dims.depth)
                 <= 64 * dims.width * dims.height
    /\ stagePc = "volume" =>
          /\ volumeData.depth \in 32..64
          /\ Len(volumeData.data) <= 64 * volumeData.width * volumeData.height

C17_Witness ==
    /\ stagePc = "sized"
    /\ dims.width = 5000 /\ dims.height = 5000
    /\ dims.depth = 64

\* The levels of histogram h that hold pixels.
Support(h) == {l \in 0..(Len(h) - 1) : h[l + 1] > 0}

\* The number of pixels of h at the levels of S.
RECURSIVE CountIn(_, _)
CountIn(h, S) ==
    IF S = {} THEN 0
    ELSE LET l == CHOOSE x \in S : TRUE
         IN h[l + 1] + CountIn(h, S \ {l})

\* The sum of the levels of the pixels of h at the levels of S.
RECURSIVE LevelSumIn(_, _)
LevelSumIn(h, S) ==
    IF S = {} THEN 0
    ELSE LET l == CHOOSE x \in S : TRUE
         IN l * h[l + 1] + LevelSumIn(h, S \ {l})

\* The between-class variance of histogram h, of support S, split after
\* level t, from the class weights and class sums: d * d / w for
\* d = |sB * wF - sF * wB| and w = wB * wF.
BetweenClass(h, S, t) ==
    LET below == {l \in S : l <= t}
        above == {l \in S : l > t}
    IN [d |-> Abs(LevelSumIn(h, below) * CountIn(h, above)
                  - LevelSumIn(h, above) * CountIn(h, below)),
        w |-> CountIn(h, below) * CountIn(h, above)]

\* Variance a is larger than variance b.
Exceeds(a, b) ==
    BigLess(BigMul(BigMul(ToBig(b.d), ToBig(b.d)), ToBig(a.w)),
            BigMul(BigMul(ToBig(a.d), ToBig(a.d)), ToBig(b.w)))

\* The levels that split h into two non-empty classes with a positive
\* between-class variance.
PositiveLevels(h) ==
    {t \in 0..(Len(h) - 1) :
        /\ BetweenClass(h, Support(h), t).w > 0
        /\ BetweenClass(h, Support(h), t).d > 0}

Uniform(data) == \A i, j \in 1..Len(data) : data[i] = data[j]

\* C19: on a volume whose voxels all have the same value,
\* segmentAnatomicalStructures returns (a full-shaped volume), the threshold
\* it computed is 0 and every voxel is given the same class.
C19_UniformVolume ==
    (stagePc = "segmented" /\ Uniform(enhancedVolume.data)) =>
        /\ otsu.threshold = 0
        /\ Len(segmentedData.data) = Len(enhancedVolume.data)
        /\ Uniform(segmentedData.data)

C19_Witness ==
    /\ stagePc = "segmented"
    /\ Len(enhancedVolume.data) = 8
    /\ \A i \in 1..8 : enhancedVolume.data[i] = 12850
    /\ otsu.threshold = 0
    /\ \A i \in 1..8 : segmentedData.data[i] = 255 * Scale

\* The four anatomical classes.
Classes == {0, 85 * Scale, 170 * Scale, 255 * Scale}

\* C20: every segmented voxel is 0, 85, 170 or 255; a voxel no darker than
\* another gets a class no lower; the classes are the bands below 0.3, below
\* 0.7, below 1.0 and from 1.0 times the threshold.
C20_FourClasses ==
    stagePc = "segmented" =>
        LET in == enhancedVolume.data
            out == segmentedData.data
            T == otsu.threshold * Scale
        IN /\ \A i \in 1..Len(out) : out[i] \in Classes
           /\ \A i, j \in 1..Len(out) : in[i] <= in[j] => out[i] <= out[j]
           /\ \A i \in 1..Len(out) :
                 /\ out[i] = 0 <=> 10 * in[i] < 3 * T
                 /\ out[i] = 85 * Scale <=> (10 * in[i] >= 3 * T /\ 10 * in[i] < 7 * T)
                 /\ out[i] = 170 * Scale <=> (10 * in[i] >= 7 * T /\ in[i] < T)
                 /\ out[i] = 255 * Scale <=> in[i] >= T

C20_Witness ==
    /\ stagePc = "segmented"
    /\ otsu.threshold > 0
    /\ {segmentedData.data[i] : i \in 1..Len(segmentedData.data)} = Classes

\* The unit cells of volume v, as the loops of generateAnatomicalMesh visit
\* them.
UnitCells(v) ==
    (0..(v.width - 2)) \X (0..(v.height - 2)) \X (0..(v.depth - 2))

\* The 8 corner values of unit cell c of volume v.
Corners(v, c) == getCubeValues(v.data, c[1], c[2], c[3], v.width, v.height)

\* Cell c has a corner above the iso-value and a corner at or below it.
Straddles(v, c) ==
    /\ \E n \in 1..8 : Corners(v, c)[n] > IsoValue
    /\ \E n \in 1..8 : Corners(v, c)[n] <= IsoValue

\* The cells that contributed a triangle to the mesh.
EmittedCells == {emitted[k] : k \in 1..Len(emitted)}

\* C14: the mesh generateAnatomicalMesh returns is valid: every face index is
\* below the number of vertices, face k references vertices 3k, 3k + 1 and
\* 3k + 2, normals has one 3-vector per vertex, and every normal has length 1
\* or is all zero.
C14_ValidMesh ==
    stagePc = "meshed" =>
        /\ Len(mesh.vertices) % 9 = 0
        /\ Len(mesh.faces) = Len(mesh.vertices) \div 3
        /\ \A i \in 1..Len(mesh.faces) :
              /\ mesh.faces[i] >= 0
              /\ mesh.faces[i] < Len(mesh.vertices) \div 3
              /\ mesh.faces[i] = i - 1
        /\ Len(mesh.normals) = Len(mesh.vertices)
        /\ \A j \in 0..((Len(mesh.normals) \div 3) - 1) :
              LET nx == mesh.normals[3 * j + 1]
                  ny == mesh.normals[3 * j + 2]
                  nz == mesh.normals[3 * j + 3]
              IN nx * nx + ny * ny + nz * nz \in {0, 1}

C14_Witness ==
    /\ stagePc = "meshed"
    /\ Len(mesh.faces) >= 6
    /\ Len(mesh.normals) = Len(mesh.vertices)
    /\ mesh.normals[1] = 0 /\ mesh.normals[2] = 0 /\ mesh.normals[3] = 1

\* C15: every unit cell of the segmented volume that straddles the iso-value
\* contributes at least one triangle to the mesh.
C15_StraddlingCellEmits ==
    stagePc = "meshed" =>
        \A c \in UnitCells(segmentedData) :
            Straddles(segmentedData, c) => c \in EmittedCells

\* C16: a unit cell whose corners are all above the iso-value, or all at or
\* below it, contributes nothing to the mesh; a volume without a straddling
\* cell yields the empty mesh.
C16_NoStraddleNoTriangle ==
    stagePc = "meshed" =>
        /\ \A c \in EmittedCells :
              c \in UnitCells(segmentedData) /\ Straddles(segmentedData, c)
        /\ Len(mesh.vertices) = 9 * Len(emitted)
        /\ (\A c \in UnitCells(segmentedData) : ~Straddles(segmentedData, c))
              => mesh = NoMesh

C16_Witness ==
    /\ stagePc = "meshed"
    /\ UnitCells(segmentedData) # {}
    /\ \A c \in UnitCells(segmentedData) : ~Straddles(segmentedData, c)
    /\ mesh = NoMesh

\* The vertices of the flat list vs, as <<x, y, z>>.
VerticesOf(vs) ==
    {<<vs[3 * k + 1], vs[3 * k + 2], vs[3 * k + 3]>> : k \in 0..((Len(vs) \div 3) - 1)}

\* calculateBoundingBox has returned for the vertices of mesh.
BoxReturned == stagePc \in {"boxed", "meshed"}

\* C21: the box calculateBoundingBox returns contains every vertex, each of
\* its six bounds is attained by some vertex, and for no vertex at all it is
\* the box with min = max = (0, 0, 0).
C21_BoundingBox ==
    BoxReturned =>
        LET V == VerticesOf(mesh.vertices)
            b == boundingBox
        IN IF V = {}
           THEN /\ b.min = [x |-> 0, y |-> 0, z |-> 0]
                /\ b.max = [x |-> 0, y |-> 0, z |-> 0]
           ELSE /\ \A v \in V : /\ b.min.x <= v[1] /\ v[1] <= b.max.x
                                /\ b.min.y <= v[2] /\ v[2] <= b.max.y
                                /\ b.min.z <= v[3] /\ v[3] <= b.max.z
                /\ \E v \in V : v[1] = b.min.x
                /\ \E v \in V : v[1] = b.max.x
                /\ \E v \in V : v[2] = b.min.y
                /\ \E v \in V : v[2] = b.max.y
                /\ \E v \in V : v[3] = b.min.z
                /\ \E v \in V : v[3] = b.max.z

C21_Witness ==
    /\ stagePc = "boxed"
    /\ mesh.vertices = <<2, -1, 3, 1, 1, -2>>
    /\ boundingBox.min = [x |-> 1, y |-> -1, z |-> -2]
    /\ boundingBox.max = [x |-> 2, y |-> 1, z |-> 3]

\* Volumes a and b have the same width, height, depth, spacing and origin.
SameGeometry(a, b) ==
    /\ a.width = b.width /\ a.height = b.height /\ a.depth = b.depth
    /\ a.spacing = b.spacing /\ a.origin = b.origin

\* C22: enhanceMedicalImage and segmentAnatomicalStructures leave the buffer
\* of their input volume as it was, return a buffer distinct from it, and
\* keep the input's width, height, depth, spacing and origin.
C22_StagesDoNotMutate ==
    /\ stagePc = "enhanced" =>
          /\ heap[refs.volume] = volumeData.data
          /\ refs.enhanced # refs.volume
          /\ heap[refs.enhanced] = enhancedVolume.data
          /\ SameGeometry(enhancedVolume, volumeData)
    /\ stagePc = "segmented" =>
          /\ heap[refs.enhanced] = enhancedVolume.data
          /\ refs.segmented # refs.enhanced
          /\ refs.segmented # refs.volume
          /\ heap[refs.segmented] = segmentedData.data
          /\ SameGeometry(segmentedData, enhancedVolume)
          /\ refs.volume # 0 => heap[refs.volume] = volumeData.data

C22_Witness ==
    /\ stagePc = "segmented"
    /\ refs = [volume |-> 1, enhanced |-> 2, segmented |-> 3]
    /\ heap[1] # heap[2] /\ heap[2] # heap[3]
    /\ segmentedData.spacing = <<1, 1, 2>>

\* The number a decimal text stands for (the inverse of `${n}`).
DigitValue(c) == CHOOSE d \in 0..9 : Digit(d) = c

RECURSIVE ParseNat(_)
ParseNat(str) ==
    IF str = <<>> THEN 0
    ELSE 10 * ParseNat(SubSeq(str, 1, Len(str) - 1)) + DigitValue(str[Len(str)])

ParseNumber(str) ==
    IF str # <<>> /\ str[1] = "-" THEN 0 - ParseNat(Tail(str)) ELSE ParseNat(str)

\* The three numbers of a 'vertex x y z' line, or of a 'facet normal x y z'
\* line after its first `skip` fields.
ReadTriple(line, skip) ==
    <<ParseNumber(line[skip + 1]), ParseNumber(line[skip + 2]),
      ParseNumber(line[skip + 3])>>

\* Vertex number n of mesh m, and the normal stored for it.
VertexAt(m, n) ==
    <<m.vertices[3 * n + 1], m.vertices[3 * n + 2], m.vertices[3 * n + 3]>>

NormalAt(m, n) ==
    <<m.normals[3 * n + 1], m.normals[3 * n + 2], m.normals[3 * n + 3]>>

Returns(r) == ppc[r] # "done" /\ ppc'[r] = "done"

\* C24: whenever processImageToModel returns (the conversion completed,
\* failed at a stage, or the report generation failed) the progress-callback
\* registry holds no entry for its scan id.
C24_ListenerRemovedOnReturn ==
    [][\A r \in Runs :
          Returns(r) => progressCallbacks'[pargs[r].scanId] = NoCb]_vars

C24_Witness ==
    \E r \in Runs :
        /\ ppc[r] = "done"
        /\ cpc[r] = "rejected"
        /\ Len(calls[r]) > 0
        /\ calls[r][1][3] = r
        /\ progressCallbacks[pargs[r].scanId] = NoCb

\* ---------------------------------------------------------------- C25
\* The file of the listened call that corresponds to file f of the
\* unlistened call: the scan id and the random staging uuid are the calls' own.
TwinFile(f) ==
    IF f.scanId # TwinId THEN f
    ELSE [f EXCEPT !.scanId = cargs[TwinA].scanId,
                   !.uuid = IF f.dir = "uploads" THEN TwinA + 1 ELSE @]

OwnFiles(scanId) == {f \in DOMAIN files : f.scanId = scanId}

\* What the stage that threw had written before it threw: the staging file
\* of downloadObjectStorageFile, the formats exportMedicalModel got through.
PartialWrites(r) ==
    {f.suffix : f \in {g \in created[r] :
                          g.dir = "uploads" \/ g.suffix \in Formats}}

\* The two calls are at the same point of convertMedicalImageTo3D and their
\* stage operations have had the same outcomes so far; a stage that threw,
\* threw at the same point in both.
SameOperations ==
    /\ cpc[TwinA] # "idle"
    /\ cpc[TwinA] = cpc[TwinB]
    /\ work[TwinA] = work[TwinB]
    /\ cpc[TwinA] = "rejected" => PartialWrites(TwinA) = PartialWrites(TwinB)

SameFiles ==
    /\ {TwinFile(f) : f \in created[TwinB]} = created[TwinA]
    /\ {TwinFile(f) : f \in OwnFiles(TwinId)} = OwnFiles(cargs[TwinA].scanId)
    /\ \A f \in OwnFiles(TwinId) : files[f] = files[TwinFile(f)]

SameResult ==
    /\ TwinFile(finalPath[TwinB]) = finalPath[TwinA]
    /\ TwinFile(tempFileToCleanup[TwinB]) = tempFileToCleanup[TwinA]
    /\ TwinFile(exportInput[TwinB]) = exportInput[TwinA]

SameContinuations ==
    /\ (ENABLED ValidateReturn(TwinA)) <=> (ENABLED ValidateReturn(TwinB))
    /\ (ENABLED ValidateThrow(TwinA)) <=> (ENABLED ValidateThrow(TwinB))
    /\ (ENABLED DownloadOpen(TwinA)) <=> (ENABLED DownloadOpen(TwinB))
    /\ (ENABLED DownloadLookupThrow(TwinA))
          <=> (ENABLED DownloadLookupThrow(TwinB))
    /\ (ENABLED DownloadFinish(TwinA)) <=> (ENABLED DownloadFinish(TwinB))
    /\ (ENABLED DownloadError(TwinA)) <=> (ENABLED DownloadError(TwinB))
    /\ (ENABLED PreprocessReturn(TwinA)) <=> (ENABLED PreprocessReturn(TwinB))
    /\ (ENABLED VolumeReturn(TwinA)) <=> (ENABLED VolumeReturn(TwinB))
    /\ (ENABLED FilterReturn(TwinA)) <=> (ENABLED FilterReturn(TwinB))
    /\ (ENABLED SegmentationReturn(TwinA))
          <=> (ENABLED SegmentationReturn(TwinB))
    /\ (ENABLED MeshReturn(TwinA)) <=> (ENABLED MeshReturn(TwinB))
    /\ (ENABLED OptimizeReturn(TwinA)) <=> (ENABLED OptimizeReturn(TwinB))
    /\ (ENABLED StageThrow(TwinA)) <=> (ENABLED StageThrow(TwinB))
    /\ (ENABLED ExportReturn(TwinA)) <=> (ENABLED ExportReturn(TwinB))
    /\ (ENABLED ExportThrow(TwinA)) <=> (ENABLED ExportThrow(TwinB))

RecordsRejection(r) ==
    /\ ppc[r] = "converting"
    /\ cpc[r] = "rejected"
    /\ ppc'[r] # "converting"

\* C26: when convertMedicalImageTo3D rejects, processImageToModel records
\* the scan with processingStatus 'failed' and never 'completed', so a scan
\* stored as 'completed' always has a non-null threeDModelPath.
C26_RejectionRecordedFailed ==
    [][/\ \A r \in Runs :
             RecordsRejection(r) =>
                scans'[pargs[r].scanId].processingStatus = "failed"
       /\ \A s \in ScanIds :
             scans'[s].processingStatus = "completed" =>
                scans'[s].threeDModelPath # NoPath]_vars

\* ---------------------------------------------------------------- C27
\* convertMedicalImageTo3D of run r has started and not yet settled.
ActiveRun(r) ==
    /\ ppc[r] = "converting"
    /\ cpc[r] \notin {"idle", "resolved", "rejected"}

\* The step is not one of run r's own conversion.
OtherStep(r) == cpc'[r] = cpc[r] /\ work'[r] = work[r] /\ calls'[r] = calls[r]

\* C27: while a conversion run for a scan id is active, the listener it
\* registered is the registry's entry for that scan id, and no step of
\* another run or start request removes one of its intermediate files.
C27_ActiveRunUndisturbed ==
    [][\A r \in Runs :
          ActiveRun(r) /\ OtherStep(r) =>
             /\ progressCallbacks[pargs[r].scanId] = r
             /\ progressCallbacks'[pargs[r].scanId] = r
             /\ \A f \in created[r] : Exists(files, f) => Exists(files', f)]_vars

\* ---------------------------------------------------------------- C28
StatusRank(status) ==
    CASE status = "pending" -> 0
      [] status = "processing" -> 1
      [] status = "completed" -> 2
      [] OTHER -> 0 - 1

\* C28: the stored processingStatus of a scan only moves forward (pending,
\* processing, completed); a scan that has been set to 'completed' is never
\* afterwards set back to 'processing', whatever the order in which the
\* listener's update, the completion update and POST /detect reach the
\* database.
C28_StatusMovesForward ==
    [][\A s \in ScanIds :
          StatusRank(scans'[s].processingStatus)
             >= StatusRank(scans[s].processingStatus)]_vars

\* ---------------------------------------------------------------- C29
\* C29: at every exit of convertMedicalImageTo3D (completion, failure of a
\* later stage, failure of the download after its local file was opened)
\* no staging file <scanId>_temp_<uuid>.tmp created by that call remains in
\* the uploads directory.
C29_StagingFileRemoved ==
    \A r \in Ids :
       cpc[r] \in {"resolved", "rejected"} =>
          \A f \in created[r] : f.dir = "uploads" => ~Exists(files, f)

\* ---------------------------------------------------------------- C30
SeqRange(q) == {q[i] : i \in DOMAIN q}

LinesWith(text, keyword) ==
    SelectSeq(text, LAMBDA l : l # <<>> /\ l[1] = keyword)

\* The vertex index of an OBJ face corner v/vt/vn.
CornerIndex(corner) ==
    CHOOSE i \in 0..9 :
       \E t \in 0..9, n \in 0..9 :
          corner = Digit(i) \o "/" \o Digit(t) \o "/" \o Digit(n)

Coordinates(line, skip) == <<line[skip + 1], line[skip + 2], line[skip + 3]>>

ObjFaceIndices(text) ==
    LET f == LinesWith(text, "f") IN
    [k \in 1..Len(f) |-> <<CornerIndex(f[k][2]), CornerIndex(f[k][3]),
                           CornerIndex(f[k][4])>>]

PlyBody(text) ==
    LET header == CHOOSE k \in 1..Len(text) : text[k] = <<"end_header">>
    IN SubSeq(text, header + 1, Len(text))

PlyVertexLines(text) == SelectSeq(PlyBody(text), LAMBDA l : Len(l) = 3)

PlyFaceLines(text) == SelectSeq(PlyBody(text), LAMBDA l : Len(l) = 4)

PlyFaceIndices(text) ==
    LET f == PlyFaceLines(text) IN
    [k \in 1..Len(f) |-> <<DigitValue(f[k][2]) + 1, DigitValue(f[k][3]) + 1,
                           DigitValue(f[k][4]) + 1>>]

PlyDeclared(text, element) ==
    LET l == CHOOSE l \in SeqRange(LinesWith(text, "element")) : l[2] = element
    IN DigitValue(l[3])

\* Vertex coordinates and faces (1-based vertex indices) an exported text
\* reads back as.
ReadVertices(e) ==
    CASE e.format = "obj" ->
            LET v == LinesWith(e.text, "v") IN
            [k \in 1..Len(v) |-> Coordinates(v[k], 1)]
      [] e.format = "stl" ->
            LET v == LinesWith(e.text, "vertex") IN
            [k \in 1..Len(v) |-> Coordinates(v[k], 1)]
      [] e.format = "ply" ->
            LET v == PlyVertexLines(e.text) IN
            [k \in 1..Len(v) |-> Coordinates(v[k], 0)]

ReadFaces(e) ==
    CASE e.format = "obj" -> ObjFaceIndices(e.text)
      [] e.format = "stl" ->
            [k \in 1..Len(LinesWith(e.text, "facet")) |->
                <<3 * k - 2, 3 * k - 1, 3 * k>>]
      [] e.format = "ply" -> PlyFaceIndices(e.text)

IndicesDeclared(e) ==
    \A k \in 1..Len(ReadFaces(e)) : \A c \in 1..3 :
       ReadFaces(e)[k][c] \in 1..Len(ReadVertices(e))

ReadTriangles(e) ==
    {[c \in 1..3 |-> ReadVertices(e)[ReadFaces(e)[k][c]]] :
        k \in 1..Len(ReadFaces(e))}

ServerExports ==
    {e \in SeqRange(serialized) : e.side = "server"}

\* C30: the OBJ, STL and PLY contents written for one scan contain the same
\* triangles (as many faces, over the same vertex coordinates, connected the
\* same way); every OBJ and PLY face index refers to a declared vertex; the
\* PLY header counts equal the numbers of vertex and face lines.
C30_ExportsAgree ==
    /\ \A e \in ServerExports :
          /\ IndicesDeclared(e)
          /\ e.format = "ply" =>
                /\ PlyDeclared(e.text, "vertex") = Len(PlyVertexLines(e.text))
                /\ PlyDeclared(e.text, "face") = Len(PlyFaceLines(e.text))
    /\ \A e1, e2 \in ServerExports :
          e1.scanId = e2.scanId =>
             /\ Len(ReadFaces(e1)) = Len(ReadFaces(e2))
             /\ ReadTriangles(e1) = ReadTriangles(e2)
====
